---- MODULE Spec2Model ----
(***************************************************************************)
(* Resumable chunked upload: the express router of server/routes/index.js  *)
(* (check, upload, merge, cleanup) over a model of the two directories it  *)
(* keeps (uploads/ and uploads/chunks/<hash>/<index>), and the React       *)
(* orchestrator of components/FileUploader.tsx with its upload service.    *)
(*                                                                         *)
(* Every handler is cut at its awaits: one action runs from one await to   *)
(* the next, as the event loop does.  The 'aborted' event of a request may *)
(* fire at any await of its handler.                                       *)
(*                                                                         *)
(* Strings are sequences of one-character strings, so that toString,       *)
(* parseInt, the sort comparator and calculateHash are computed.           *)
(***************************************************************************)
EXTENDS Naturals, Sequences, FiniteSets, TLC

\* ------------------------------------------------------------------ bounds
\* chunk indices used by the concurrent server specifications: 0..NumIdx-1
NumIdx == 2
\* largest chunk count of the ordering specification (indices 0..MaxChunks-1)
MaxChunks == 11
\* number of pieces a chunk payload is written in
PayloadLen == 2

\* the largest file size and the largest chunk size given to the chunker
MaxSize == 6

MaxChunkSize == 3

\* the most files in one selection, and the most selections
MaxFiles == 2

MaxBatches == 2

\* ------------------------------------------------------------------ strings
Digits == <<"0", "1", "2", "3", "4", "5", "6", "7", "8", "9">>

DigitVal(c) == (CHOOSE d \in 1..10 : Digits[d] = c) - 1

IsDigit(c) == \E d \in 1..10 : Digits[d] = c

\* Number.prototype.toString: the decimal digits of n
RECURSIVE toString(_)
toString(n) == IF n < 10 THEN <<Digits[n + 1]>>
               ELSE toString(n \div 10) \o <<Digits[(n % 10) + 1]>>

\* parseInt on a string of digits (longest numeric prefix; -1 stands for NaN)
RECURSIVE ParseDigits(_, _)
ParseDigits(s, acc) ==
  IF s = <<>> \/ ~IsDigit(Head(s)) THEN acc
  ELSE ParseDigits(Tail(s), acc * 10 + DigitVal(Head(s)))

parseInt(s) == IF s = <<>> \/ ~IsDigit(Head(s)) THEN 0 - 1 ELSE ParseDigits(s, 0)

\* the order of strings that Array.prototype.sort() uses without a comparator
RECURSIVE LexLess(_, _)
LexLess(a, b) ==
  IF a = <<>> THEN b # <<>>
  ELSE IF b = <<>> THEN FALSE
  ELSE IF Head(a) = Head(b) THEN LexLess(Tail(a), Tail(b))
  ELSE DigitVal(Head(a)) < DigitVal(Head(b))

Range(s) == {s[j] : j \in 1..Len(s)}

\* ------------------------------------------------------------------ sorting
\* the default order of Array.prototype.sort: by string
LexCompare(a, b) == LexLess(a, b)

\* the comparator of chunks.sort((a, b) => parseInt(a) - parseInt(b)):
\* TRUE when a is ordered before b
NumCompare(a, b) == parseInt(a) < parseInt(b)

\* Array.prototype.sort with that comparator (stable)
RECURSIVE InsertSorted(_, _)
InsertSorted(x, s) ==
  IF s = <<>> THEN <<x>>
  ELSE IF NumCompare(x, Head(s)) THEN <<x>> \o s
  ELSE <<Head(s)>> \o InsertSorted(x, Tail(s))

RECURSIVE SortChunks(_)
SortChunks(chunks) ==
  IF chunks = <<>> THEN <<>>
  ELSE InsertSorted(chunks[Len(chunks)],
                    SortChunks(SubSeq(chunks, 1, Len(chunks) - 1)))

\* ------------------------------------------------------------------ files
\* the default chunkSize of createFileChunks, 5 * 1024 * 1024, in the unit of
\* the file sizes below
ChunkSize == 2

\* the client's files: name, lastModified and a content version
\* (sizes in units of half a chunk)
FileA == [name |-> <<"a">>, lastModified |-> 1, content |-> 1, size |-> 3]

FileB == [name |-> <<"a">>, lastModified |-> 2, content |-> 2, size |-> 2]

Files == {FileA, FileB}

\* file.name.replace(/[^a-zA-Z0-9]/g, '_')
SafeChar(c) == IF c \in {"a", "b"} \/ IsDigit(c) THEN c ELSE "_"

safeName(name) == [j \in 1..Len(name) |-> SafeChar(name[j])]

calculateHash(file) == safeName(file.name) \o <<"_">> \o toString(file.lastModified)

\* createFileChunks: the slices [cur, cur + chunkSize) with their indices
RECURSIVE SliceFrom(_, _, _, _)
SliceFrom(size, chunkSize, cur, n) ==
  IF cur < size
  THEN <<[index |-> n, from |-> cur,
          to |-> IF cur + chunkSize < size THEN cur + chunkSize ELSE size]>>
       \o SliceFrom(size, chunkSize, cur + chunkSize, n + 1)
  ELSE <<>>

\* a chunker that drops a last chunk shorter than chunkSize
createFullChunks(file, chunkSize) ==
  SelectSeq(SliceFrom(file.size, chunkSize, 0, 0), LAMBDA c : c.to - c.from = chunkSize)

createFileChunks(file, chunkSize) == SliceFrom(file.size, chunkSize, 0, 0)

Hashes == {calculateHash(f) : f \in Files}

Names == {f.name : f \in Files}

IdxNames == {toString(i) : i \in 0..(MaxChunks - 1)}

Versions == {f.content : f \in Files}

\* one piece of a chunk payload: content version, chunk index, piece number
Piece(v, i, k) == <<v, i, k>>

Hole == <<0, 0, 0>>

Payload(v, i) == [k \in 1..PayloadLen |-> Piece(v, i, k)]

\* ------------------------------------------------------------------ state
VARIABLES
  uploadsDir,   \* uploads/<filename>: [ex, data, from]
  chunkDirs,    \* the hashes h for which uploads/chunks/<h> exists
  chunkList,    \* the entries of uploads/chunks/<h>, in creation order
  chunkData,    \* the bytes of uploads/chunks/<h>/<index>
  merge,        \* the /merge requests
  check,        \* the /check requests
  upload,       \* the /upload requests
  cleanup,      \* the /cleanup requests
  cl,           \* the orchestrator (FileUploader and the upload service)
  sent,         \* the requests the orchestrator has dispatched, in order
  util          \* the calls of utils/fileChunk.ts: arguments and results

vars == <<uploadsDir, chunkDirs, chunkList, chunkData, merge, check, upload, cleanup,
          cl, sent, util>>

srvVars == <<uploadsDir, chunkDirs, chunkList, chunkData, merge, check, upload, cleanup>>

cliVars == <<cl, sent, util>>

MergeIds == {"m1", "m2"}

CheckIds == {"k1"}

UploadIds == {"u1", "u2"}

CleanupIds == {"c1", "c2"}

NoHash == <<>>

\* a field that the request body does not carry
Undefined == <<"undefined">>

NoFile == [ex |-> FALSE, data |-> <<>>, from |-> NoHash]

\* a response: the status code and the fields of the JSON body that matter
Resp(status, uploaded, total, url) ==
  [status |-> status, uploaded |-> uploaded, total |-> total, url |-> url]

Plain(status) == Resp(status, 0 - 1, 0 - 1, <<>>)

\* fs.readdir(chunkDir)
Readdir(h) == chunkList[h]

ChunkExists(h, x) == h \in chunkDirs /\ x \in Range(chunkList[h])

\* write bytes at offset pos of a file, zero-filling a gap before pos
WriteAt(data, pos, bytes) ==
  LET n == IF Len(data) > pos + Len(bytes) THEN Len(data) ELSE pos + Len(bytes)
  IN [j \in 1..n |->
        IF j > pos /\ j <= pos + Len(bytes) THEN bytes[j - pos]
        ELSE IF j <= Len(data) THEN data[j]
        ELSE Hole]

RemoveFrom(s, x) == SelectSeq(s, LAMBDA y : y # x)

\* after unlink(uploads/<n>) the open streams on it write to an unlinked inode
DetachMerges(mg, n) ==
  [x \in MergeIds |->
     IF mg[x].filename = n THEN [mg[x] EXCEPT !.attached = FALSE] ELSE mg[x]]

DetachUploads(up, h, x) ==
  [u \in UploadIds |->
     IF up[u].hash = h /\ up[u].index = x
     THEN [up[u] EXCEPT !.attached = FALSE] ELSE up[u]]

DetachUploadsOf(up, h) ==
  [u \in UploadIds |->
     IF up[u].hash = h THEN [up[u] EXCEPT !.attached = FALSE] ELSE up[u]]

MergeIdle ==
  [pc |-> "idle", hash |-> NoHash, filename |-> <<>>, total |-> 0,
   isAborted |-> FALSE, abortedAt |-> "none", ws |-> "none", attached |-> FALSE,
   pos |-> 0, chunks |-> <<>>, i |-> 0, buffer |-> <<>>, resp |-> <<>>,
   ioFailed |-> FALSE]

CheckIdle ==
  [pc |-> "idle", hash |-> NoHash, filename |-> <<>>, isAborted |-> FALSE,
   seen |-> NoFile, resp |-> <<>>]

UploadIdle ==
  [pc |-> "idle", hash |-> NoHash, index |-> <<>>, ver |-> 0, pos |-> 0,
   attached |-> FALSE, after |-> {}, isAborted |-> FALSE, resp |-> <<>>]

CleanupIdle ==
  [pc |-> "idle", hash |-> NoHash, index |-> <<>>, isAborted |-> FALSE,
   resp |-> <<>>]

NoUpload == [set |-> FALSE, hash |-> NoHash, index |-> 0]

\* the component as mounted: progress.status 'waiting', nothing in flight
ClientIdle ==
  [pc |-> "idle", files |-> <<>>, fi |-> 0, hash |-> NoHash, chunks |-> 0,
   ci |-> 0, uploaded |-> {}, completed |-> 0,
   isCancelledRef |-> FALSE, svcCancelled |-> FALSE, isCancelling |-> FALSE,
   ctrl |-> "none", cur |-> NoUpload, status |-> "waiting",
   cpc |-> "idle", aborted |-> {}, batches |-> 0, fast |-> {}, cancels |-> {}, errors |-> {}]


\* ------------------------------------------------------------------ /merge
\* chunks.length !== parseInt(total), negated
\* a laxer count test, which lets surplus chunks pass
CountMatchesAtLeast(chunks, total) == Len(chunks) >= total

\* chunks.length !== parseInt(total), negated
CountMatches(chunks, total) == Len(chunks) = total

\* the 400 body: `分片数量不符，已上传 ${chunks.length}，共 ${total} 个分片`
MismatchResponse(chunks, total) == Resp(400, Len(chunks), total, <<>>)

\* the 200 body: { url: `/uploads/${filename}` }
MergedResponse(filename) == Resp(200, 0 - 1, 0 - 1, filename)

\* writeStream.destroy(): a stream that already finished stays finished
Destroyed(ws) == IF ws = "open" THEN "destroyed" ELSE ws

\* fs.createWriteStream(filePath): creates the file, or truncates the one there
CreateArtifact(dir, n, h) == [dir EXCEPT ![n] = [ex |-> TRUE, data |-> <<>>, from |-> h]]

\* a catch block that leaves the destination file in place
MergeCatchKeepsFile(m, mg) ==
  /\ merge' = [mg EXCEPT ![m].pc = "done", ![m].ws = Destroyed(mg[m].ws),
                         ![m].resp = Append(mg[m].resp, Plain(500))]
  /\ UNCHANGED uploadsDir

\* the catch block: destroy the stream, unlink the destination if it exists,
\* answer 500
MergeCatch(m, mg) ==
  LET n == mg[m].filename
      gone == n # <<>> /\ uploadsDir[n].ex
      base == IF gone THEN DetachMerges(mg, n) ELSE mg
  IN /\ merge' = [base EXCEPT ![m].pc = "done",
                              ![m].ws = Destroyed(mg[m].ws),
                              ![m].resp = Append(mg[m].resp, Plain(500))]
     /\ uploadsDir' = IF gone THEN [uploadsDir EXCEPT ![n] = NoFile] ELSE uploadsDir

\* if (fs.existsSync(filePath)) fs.unlinkSync(filePath); return
MergeUnlinkAndReturn(m, mg) ==
  LET n == mg[m].filename
      gone == uploadsDir[n].ex
      base == IF gone THEN DetachMerges(mg, n) ELSE mg
  IN /\ merge' = [base EXCEPT ![m].pc = "done"]
     /\ uploadsDir' = IF gone THEN [uploadsDir EXCEPT ![n] = NoFile] ELSE uploadsDir

\* the request arrives: the listener is registered, the body is read and
\* fs.readdir(chunkDir) is issued
\* path.join(chunksDir, hash) or path.join(uploadsDir, filename) throws a
\* TypeError on undefined: the catch block runs, and unlinks the file under
\* req.body.filename if there is a filename
MergeStart(m, h, n, t) ==
  LET mg == [merge EXCEPT ![m].hash = h, ![m].filename = n, ![m].total = t]
  IN /\ merge[m].pc = "idle"
     /\ IF n = Undefined
        THEN /\ merge' = [mg EXCEPT ![m].pc = "done", ![m].resp = <<Plain(500)>>]
             /\ UNCHANGED uploadsDir
        ELSE IF h = Undefined
        THEN MergeCatch(m, mg)
        ELSE /\ merge' = [mg EXCEPT ![m].pc = "readdir"]
             /\ UNCHANGED uploadsDir
     /\ UNCHANGED <<chunkDirs, chunkList, chunkData, check, upload, cleanup>>

\* readdir answers: count check, sort, createWriteStream, first readFile issued
MergeAfterReaddir(m) ==
  LET r == merge[m]
      chunks == Readdir(r.hash)
      sorted == SortChunks(chunks)
  IN /\ r.pc = "readdir"
     /\ UNCHANGED <<chunkDirs, chunkList, chunkData, check, upload, cleanup>>
     /\ IF r.hash \notin chunkDirs
        THEN MergeCatch(m, merge)
        ELSE IF r.isAborted
        THEN /\ merge' = [merge EXCEPT ![m].pc = "done"]
             /\ UNCHANGED uploadsDir
        ELSE IF ~CountMatches(chunks, r.total)
        THEN /\ merge' = [merge EXCEPT
                            ![m].pc = "done",
                            ![m].resp = Append(r.resp, MismatchResponse(chunks, r.total))]
             /\ UNCHANGED uploadsDir
        ELSE /\ uploadsDir' = CreateArtifact(uploadsDir, r.filename, r.hash)
             /\ merge' = [merge EXCEPT
                            ![m].chunks = sorted, ![m].ws = "open",
                            ![m].attached = TRUE, ![m].pos = 0, ![m].i = 0,
                            ![m].pc = IF sorted = <<>> THEN "waitFinish" ELSE "read"]

\* readFile answers and writeStream.write(buffer, cb) is called
MergeAfterRead(m) ==
  LET r == merge[m]
      chunk == r.chunks[r.i + 1]
  IN /\ r.pc = "read"
     /\ UNCHANGED <<chunkDirs, chunkList, chunkData, check, upload, cleanup>>
     /\ IF ~ChunkExists(r.hash, chunk) \/ r.ws = "destroyed"
        THEN MergeCatch(m, merge)
        ELSE /\ merge' = [merge EXCEPT ![m].pc = "write",
                                       ![m].buffer = chunkData[r.hash][chunk]]
             /\ UNCHANGED uploadsDir

\* readFile calls back with an error: reject(err), and the catch block runs
MergeReadFails(m) ==
  /\ merge[m].pc = "read"
  /\ MergeCatch(m, [merge EXCEPT ![m].ioFailed = TRUE])
  /\ UNCHANGED <<chunkDirs, chunkList, chunkData, check, upload, cleanup>>

\* the write fails: the stream's 'error' listener unlinks the destination,
\* the write callback rejects, and the catch block runs
MergeWriteFails(m) ==
  /\ merge[m].pc = "write"
  /\ MergeCatch(m, [merge EXCEPT ![m].ioFailed = TRUE, ![m].buffer = <<>>])
  /\ UNCHANGED <<chunkDirs, chunkList, chunkData, check, upload, cleanup>>

\* the write reaches the file and its callback resolves; setTimeout(0) is armed
MergeAfterWrite(m) ==
  LET r == merge[m]
  IN /\ r.pc = "write"
     /\ uploadsDir' =
          IF r.attached
          THEN [uploadsDir EXCEPT ![r.filename].data = WriteAt(@, r.pos, r.buffer)]
          ELSE uploadsDir
     /\ merge' = [merge EXCEPT ![m].pc = "yield", ![m].pos = r.pos + Len(r.buffer),
                               ![m].buffer = <<>>]
     /\ UNCHANGED <<chunkDirs, chunkList, chunkData, check, upload, cleanup>>

\* the timer fires: i++, then the loop head (isAborted check, next readFile) or,
\* past the last chunk, writeStream.end()
MergeAfterYield(m) ==
  LET r == merge[m]
      mg == [merge EXCEPT ![m].i = r.i + 1]
  IN /\ r.pc = "yield"
     /\ UNCHANGED <<chunkDirs, chunkList, chunkData, check, upload, cleanup>>
     /\ IF r.i + 1 < Len(r.chunks)
        THEN IF r.isAborted
             THEN MergeUnlinkAndReturn(m, [mg EXCEPT ![m].ws = Destroyed(r.ws)])
             ELSE /\ merge' = [mg EXCEPT ![m].pc = "read"]
                  /\ UNCHANGED uploadsDir
        ELSE /\ merge' = [mg EXCEPT ![m].pc = "waitFinish"]
             /\ UNCHANGED uploadsDir

\* 'finish' is emitted (never by a destroyed stream); fsExtra.remove is issued
MergeAfterFinish(m) ==
  LET r == merge[m]
      mg == [merge EXCEPT ![m].ws = "finished"]
  IN /\ r.pc = "waitFinish"
     /\ r.ws = "open"
     /\ UNCHANGED <<chunkDirs, chunkList, chunkData, check, upload, cleanup>>
     /\ IF r.isAborted
        THEN MergeUnlinkAndReturn(m, mg)
        ELSE /\ merge' = [mg EXCEPT ![m].pc = "remove"]
             /\ UNCHANGED uploadsDir

\* fsExtra.remove(chunkDir) is done and the success response is sent
MergeAfterRemove(m) ==
  LET r == merge[m]
  IN /\ r.pc = "remove"
     /\ chunkDirs' = chunkDirs \ {r.hash}
     /\ chunkList' = [chunkList EXCEPT ![r.hash] = <<>>]
     /\ chunkData' = [chunkData EXCEPT ![r.hash] = [x \in IdxNames |-> <<>>]]
     /\ upload' = DetachUploadsOf(upload, r.hash)
     /\ merge' = [merge EXCEPT ![m].pc = "done",
                               ![m].resp = Append(r.resp, MergedResponse(r.filename))]
     /\ UNCHANGED <<uploadsDir, check, cleanup>>

\* an 'aborted' listener that also discards the staging area
MergeAbortRemovesChunks(m) ==
  LET r == merge[m]
  IN /\ r.pc \notin {"idle", "done"}
     /\ ~r.isAborted
     /\ merge' = [merge EXCEPT ![m].isAborted = TRUE, ![m].abortedAt = r.pc,
                               ![m].ws = Destroyed(r.ws),
                               ![m].resp = Append(r.resp, Plain(499))]
     /\ chunkDirs' = chunkDirs \ {r.hash}
     /\ chunkList' = [chunkList EXCEPT ![r.hash] = <<>>]
     /\ chunkData' = [chunkData EXCEPT ![r.hash] = [x \in IdxNames |-> <<>>]]
     /\ UNCHANGED <<uploadsDir, check, upload, cleanup>>

\* req.on('aborted'): the flag, writeStream.destroy(), res.status(499).end()
MergeAbort(m) ==
  LET r == merge[m]
  IN /\ r.pc \notin {"idle", "done"}
     /\ ~r.isAborted
     /\ merge' = [merge EXCEPT ![m].isAborted = TRUE, ![m].abortedAt = r.pc,
                               ![m].ws = Destroyed(r.ws),
                               ![m].resp = Append(r.resp, Plain(499))]
     /\ UNCHANGED <<uploadsDir, chunkDirs, chunkList, chunkData, check, upload, cleanup>>

\* ------------------------------------------------------------------ /check
\* { exists: true, url }, { exists: false } and { exists: false, uploadedChunks }
\* an answer that drops the listing
CheckRespUnlisted(status, exists, listed, chunks) ==
  [status |-> status, exists |-> exists, listed |-> listed, uploadedChunks |-> <<>>]

\* the JSON body of the status check; listed says that uploadedChunks is present
CheckResp(status, exists, listed, chunks) ==
  [status |-> status, exists |-> exists, listed |-> listed, uploadedChunks |-> chunks]

\* a status check that finds no file under any name
FileNeverExists(h, n) == FALSE

\* fs.access(filePath, F_OK): the answer of the status check's first test
FileExists(h, n) == uploadsDir[n].ex

\* a status check that creates the staging directory it looks for
FsEnsuresDir(h) ==
  /\ chunkDirs' = chunkDirs \cup ({h} \cap Hashes)
  /\ UNCHANGED <<uploadsDir, chunkList, chunkData>>

\* fs.access(path, F_OK) and fs.readdir(dir) leave the file system as it is
FsReadOnly(h) == UNCHANGED <<uploadsDir, chunkDirs, chunkList, chunkData>>

\* the request arrives: const { hash, filename } = req.body, then
\* path.join(uploadsDir, filename), which throws a TypeError on undefined and
\* so reaches the catch block; otherwise fs.access(filePath) is issued
CheckStart(k, h, n) ==
  /\ check[k].pc = "idle"
  /\ check' =
       IF n = Undefined
       THEN [check EXCEPT ![k].pc = "done", ![k].hash = h, ![k].filename = n,
                          ![k].resp = <<CheckResp(500, FALSE, FALSE, <<>>)>>]
       ELSE [check EXCEPT ![k].pc = "access", ![k].hash = h, ![k].filename = n]
  /\ UNCHANGED <<uploadsDir, chunkDirs, chunkList, chunkData, merge, upload, cleanup>>

\* fs.access(filePath) answers; path.join(chunksDir, hash) throws on undefined
CheckAfterAccess(k) ==
  LET r == check[k]
  IN /\ r.pc = "access"
     /\ check' =
          IF r.isAborted THEN [check EXCEPT ![k].pc = "done"]
          ELSE IF FileExists(r.hash, r.filename)
          THEN [check EXCEPT ![k].pc = "done", ![k].seen = uploadsDir[r.filename],
                             ![k].resp = Append(r.resp, CheckResp(200, TRUE, FALSE, <<>>))]
          ELSE IF r.hash = Undefined
          THEN [check EXCEPT ![k].pc = "done",
                             ![k].resp = Append(r.resp, CheckResp(500, FALSE, FALSE, <<>>))]
          ELSE [check EXCEPT ![k].pc = "accessDir"]
     /\ FsReadOnly(r.hash)
     /\ UNCHANGED <<merge, upload, cleanup>>

\* fs.access(chunkDir) answers
CheckAfterAccessDir(k) ==
  LET r == check[k]
  IN /\ r.pc = "accessDir"
     /\ check' =
          IF r.isAborted THEN [check EXCEPT ![k].pc = "done"]
          ELSE IF r.hash \notin chunkDirs
          THEN [check EXCEPT ![k].pc = "done",
                             ![k].resp = Append(r.resp, CheckResp(200, FALSE, FALSE, <<>>))]
          ELSE [check EXCEPT ![k].pc = "readdir"]
     /\ FsReadOnly(r.hash)
     /\ UNCHANGED <<merge, upload, cleanup>>

\* fs.readdir(chunkDir) answers
CheckAfterReaddir(k) ==
  LET r == check[k]
  IN /\ r.pc = "readdir"
     /\ check' =
          IF r.hash \notin chunkDirs
          THEN [check EXCEPT ![k].pc = "done",
                             ![k].resp = Append(r.resp, CheckResp(500, FALSE, FALSE, <<>>))]
          ELSE IF r.isAborted THEN [check EXCEPT ![k].pc = "done"]
          ELSE [check EXCEPT ![k].pc = "done",
                             ![k].resp = Append(r.resp,
                                                CheckResp(200, FALSE, TRUE, Readdir(r.hash)))]
     /\ FsReadOnly(r.hash)
     /\ UNCHANGED <<merge, upload, cleanup>>

\* req.on('aborted'): the flag and res.status(499).end()
CheckAbort(k) ==
  LET r == check[k]
  IN /\ r.pc \notin {"idle", "done"}
     /\ ~r.isAborted
     /\ check' = [check EXCEPT ![k].isAborted = TRUE,
                               ![k].resp = Append(r.resp, CheckResp(499, FALSE, FALSE, <<>>))]
     /\ UNCHANGED <<uploadsDir, chunkDirs, chunkList, chunkData, merge, upload, cleanup>>

\* ------------------------------------------------------------------ /upload
\* fs.unlinkSync(chunkPath) / fs.unlink(chunkPath): the entry goes, and the
\* streams open on it keep writing to the unlinked inode
\* an unlink that empties the whole staging directory
UnlinkChunkDir(h, x) ==
  /\ chunkList' = [chunkList EXCEPT ![h] = <<>>]
  /\ chunkData' = [chunkData EXCEPT ![h] = [y \in IdxNames |-> <<>>]]

\* fs.unlinkSync(chunkPath) / fs.unlink(chunkPath)
UnlinkChunk(h, x) ==
  /\ chunkList' = [chunkList EXCEPT ![h] = RemoveFrom(@, x)]
  /\ chunkData' = [chunkData EXCEPT ![h][x] = <<>>]

\* a directory that takes a second entry for a name it already holds
AddEntryAlways(list, x) == Append(list, x)

\* the directory after a file named x is opened for writing in it: one entry
\* for x, new or already there
AddEntry(list, x) == IF x \in Range(list) THEN list ELSE Append(list, x)

\* the file that createWriteStream(path.join(destination, filename)) leaves:
\* a new empty file, or the existing one truncated
OpenedChunk(data) == <<>>

\* { index, hash } of the success body
UploadedResponse(h, x) == Resp(200, 0 - 1, 0 - 1, h \o <<"/">> \o x)

\* header checks that let every request through
MissingNever(v) == FALSE

\* if (!hash) / if (!index): the header is absent or empty
Missing(v) == v = <<>>

\* a destination() that never creates the directory
EnsureDirNever(dirs, h) == dirs

\* if (!fs.existsSync(chunkDir)) fs.mkdirSync(chunkDir, { recursive: true }),
\* with no await between the test and the creation
EnsureDir(dirs, h) == dirs \cup {h}

\* the request line and headers arrive: the route's 'aborted' listener is
\* registered and multer starts to parse the body
UploadStart(u, h, x, v) ==
  /\ upload[u].pc = "idle"
  /\ upload' = [upload EXCEPT ![u].pc = "parsing", ![u].hash = h, ![u].index = x,
                              ![u].ver = v]
  /\ UNCHANGED <<uploadsDir, chunkDirs, chunkList, chunkData, merge, check, cleanup>>

\* the file part starts: destination() (mkdir), filename(), createWriteStream
UploadOpen(u) ==
  LET r == upload[u]
      h == r.hash
      x == r.index
  IN /\ r.pc = "parsing"
     /\ UNCHANGED <<uploadsDir, merge, check, cleanup>>
     /\ IF Missing(h)
        THEN /\ upload' = [upload EXCEPT ![u].pc = "done",
                                         ![u].resp = Append(r.resp, Plain(400))]
             /\ UNCHANGED <<chunkDirs, chunkList, chunkData>>
        ELSE IF Missing(x)
        THEN /\ chunkDirs' = EnsureDir(chunkDirs, h)
             /\ upload' = [upload EXCEPT ![u].pc = "done",
                                         ![u].resp = Append(r.resp, Plain(400))]
             /\ UNCHANGED <<chunkList, chunkData>>
        ELSE /\ chunkDirs' = EnsureDir(chunkDirs, h)
             /\ chunkList' = [chunkList EXCEPT ![h] = AddEntry(@, x)]
             /\ chunkData' = [chunkData EXCEPT ![h][x] = OpenedChunk(@)]
             /\ upload' = [upload EXCEPT
                             ![u].pc = "writing", ![u].pos = 0, ![u].attached = TRUE,
                             ![u].after = {w \in UploadIds : upload[w].pc = "done"}]

\* one piece of the body is piped into the chunk file
UploadWrite(u) ==
  LET r == upload[u]
      piece == <<Payload(r.ver, parseInt(r.index))[r.pos + 1]>>
  IN /\ r.pc = "writing"
     /\ r.pos < PayloadLen
     /\ chunkData' = IF r.attached
                     THEN [chunkData EXCEPT ![r.hash][r.index] = WriteAt(@, r.pos, piece)]
                     ELSE chunkData
     /\ upload' = [upload EXCEPT ![u].pos = r.pos + 1]
     /\ UNCHANGED <<uploadsDir, chunkDirs, chunkList, merge, check, cleanup>>

\* the body is complete and written: multer calls back and the route answers
UploadFinish(u) ==
  LET r == upload[u]
  IN /\ r.pc = "writing"
     /\ r.pos = PayloadLen
     /\ upload' = [upload EXCEPT
                     ![u].pc = "done",
                     ![u].resp = Append(r.resp, UploadedResponse(r.hash, r.index))]
     /\ UNCHANGED <<uploadsDir, chunkDirs, chunkList, chunkData, merge, check, cleanup>>

\* abort listeners that leave the chunk file in place
AbortUnlinksNever(h, x) == FALSE

\* whether the 'aborted' listeners delete the chunk file
AbortUnlinks(h, x) == h # NoHash /\ x # <<>> /\ ChunkExists(h, x)

\* req.on('aborted') of the route (and of destination()): unlink the chunk file
\* if it exists, answer 499; multer's callback then returns at `if (isAborted)`
UploadAbort(u) ==
  LET r == upload[u]
      gone == AbortUnlinks(r.hash, r.index)
      base == IF gone THEN DetachUploads(upload, r.hash, r.index) ELSE upload
  IN /\ r.pc \in {"parsing", "writing"}
     /\ upload' = [base EXCEPT ![u].pc = "done", ![u].isAborted = TRUE,
                               ![u].attached = FALSE,
                               ![u].resp = Append(r.resp, Plain(499))]
     /\ IF gone THEN UnlinkChunk(r.hash, r.index)
        ELSE UNCHANGED <<chunkList, chunkData>>
     /\ UNCHANGED <<uploadsDir, chunkDirs, merge, check, cleanup>>

\* ------------------------------------------------------------------ /cleanup
\* the body is read; fs.access(chunkPath) is issued unless a field is missing
CleanupStart(c, h, x) ==
  /\ cleanup[c].pc = "idle"
  /\ cleanup' =
       IF h = NoHash \/ x = <<>>
       THEN [cleanup EXCEPT ![c].pc = "done", ![c].hash = h, ![c].index = x,
                            ![c].resp = <<Plain(400)>>]
       ELSE [cleanup EXCEPT ![c].pc = "access", ![c].hash = h, ![c].index = x]
  /\ UNCHANGED <<uploadsDir, chunkDirs, chunkList, chunkData, merge, check, upload>>

\* fs.access answers: fs.unlink is issued if the chunk exists, else success
CleanupAfterAccess(c) ==
  LET r == cleanup[c]
  IN /\ r.pc = "access"
     /\ cleanup' =
          IF r.isAborted THEN [cleanup EXCEPT ![c].pc = "done"]
          ELSE IF ChunkExists(r.hash, r.index) THEN [cleanup EXCEPT ![c].pc = "unlink"]
          ELSE [cleanup EXCEPT ![c].pc = "done", ![c].resp = Append(r.resp, Plain(200))]
     /\ UNCHANGED <<uploadsDir, chunkDirs, chunkList, chunkData, merge, check, upload>>

\* fs.unlink answers: success, or the catch block's 500 if the file was gone
CleanupAfterUnlink(c) ==
  LET r == cleanup[c]
  IN /\ r.pc = "unlink"
     /\ UNCHANGED <<uploadsDir, chunkDirs, merge, check>>
     /\ IF ChunkExists(r.hash, r.index)
        THEN /\ UnlinkChunk(r.hash, r.index)
             /\ upload' = DetachUploads(upload, r.hash, r.index)
             /\ cleanup' = [cleanup EXCEPT
                              ![c].pc = "done",
                              ![c].resp = IF r.isAborted THEN r.resp
                                          ELSE Append(r.resp, Plain(200))]
        ELSE /\ cleanup' = [cleanup EXCEPT ![c].pc = "done",
                                           ![c].resp = Append(r.resp, Plain(500))]
             /\ UNCHANGED <<chunkList, chunkData, upload>>

\* req.on('aborted'): the flag and res.status(499).end()
CleanupAbort(c) ==
  LET r == cleanup[c]
  IN /\ r.pc \notin {"idle", "done"}
     /\ ~r.isAborted
     /\ cleanup' = [cleanup EXCEPT ![c].isAborted = TRUE,
                                   ![c].resp = Append(r.resp, Plain(499))]
     /\ UNCHANGED <<uploadsDir, chunkDirs, chunkList, chunkData, merge, check, upload>>


\* ------------------------------------------------------------------ stores
\* the permutations of a set, as sequences
RECURSIVE Perms(_)
Perms(S) ==
  IF S = {} THEN {<<>>}
  ELSE UNION {{<<x>> \o p : p \in Perms(S \ {x})} : x \in S}

FileOf(h) == CHOOSE f \in Files : calculateHash(f) = h

\* a staging area of hash h holding the complete chunks listed in order
StoredData(h, order) ==
  [x \in IdxNames |->
     IF x \in Range(order) THEN Payload(FileOf(h).content, parseInt(x)) ELSE <<>>]

HashA == calculateHash(FileA)

HashB == calculateHash(FileB)

\* no call of the file utilities on record
UtilIdle ==
  [op |-> "none", file |-> FileA, other |-> FileA, chunkSize |-> ChunkSize,
   chunks |-> <<>>, again |-> <<>>, hash |-> NoHash, otherHash |-> NoHash]

IdleRequests ==
  /\ cl = ClientIdle
  /\ util = UtilIdle
  /\ sent = <<>>
  /\ merge = [m \in MergeIds |-> MergeIdle]
  /\ check = [k \in CheckIds |-> CheckIdle]
  /\ upload = [u \in UploadIds |-> UploadIdle]
  /\ cleanup = [c \in CleanupIds |-> CleanupIdle]

\* ------------------------------------------------------------------ merge spec
\* One merge and one status check against a store that earlier uploads left:
\* any set of complete chunks of FileA, in any arrival order.
InitMerge ==
  /\ uploadsDir = [n \in Names |-> NoFile]
  /\ \E S \in SUBSET (0..(NumIdx - 1)) : \E order \in Perms({toString(i) : i \in S}) :
       /\ chunkDirs = IF S = {} THEN {} ELSE {HashA}
       /\ chunkList = [h \in Hashes |-> IF h = HashA THEN order ELSE <<>>]
       /\ chunkData = [h \in Hashes |->
                         IF h = HashA THEN StoredData(h, order)
                         ELSE [x \in IdxNames |-> <<>>]]
  /\ IdleRequests

NextMerge ==
  \/ \E h \in Hashes, n \in Names, t \in 0..NumIdx : MergeStart("m1", h, n, t) /\ UNCHANGED cliVars
  \/ MergeAfterReaddir("m1") /\ UNCHANGED cliVars
  \/ MergeAfterRead("m1") /\ UNCHANGED cliVars
  \/ MergeAfterWrite("m1") /\ UNCHANGED cliVars
  \/ MergeAfterYield("m1") /\ UNCHANGED cliVars
  \/ MergeAfterFinish("m1") /\ UNCHANGED cliVars
  \/ MergeAfterRemove("m1") /\ UNCHANGED cliVars
  \/ MergeAbort("m1") /\ UNCHANGED cliVars
  \/ \E h \in Hashes, n \in Names : CheckStart("k1", h, n) /\ UNCHANGED cliVars
  \/ CheckAfterAccess("k1") /\ UNCHANGED cliVars
  \/ CheckAfterAccessDir("k1") /\ UNCHANGED cliVars
  \/ CheckAfterReaddir("k1") /\ UNCHANGED cliVars
  \/ CheckAbort("k1") /\ UNCHANGED cliVars

SpecMerge == InitMerge /\ [][NextMerge]_vars


\* ------------------------------------------------------------------ order spec
\* One merge of N stored chunks, N up to MaxChunks, listed by readdir in a
\* rotation of the ascending or of the descending order of arrival.
Ascending(n) == [j \in 1..n |-> toString(j - 1)]

Rotate(s, d) == [j \in 1..Len(s) |-> s[((j + d - 1) % Len(s)) + 1]]

Reverse(s) == [j \in 1..Len(s) |-> s[Len(s) + 1 - j]]

Orders(n) == {Rotate(Ascending(n), d) : d \in 0..(n - 1)}
               \cup {Rotate(Reverse(Ascending(n)), d) : d \in 0..(n - 1)}

InitOrder ==
  /\ uploadsDir = [n \in Names |-> NoFile]
  /\ \E n \in 1..MaxChunks : \E order \in Orders(n) :
       /\ chunkDirs = {HashA}
       /\ chunkList = [h \in Hashes |-> IF h = HashA THEN order ELSE <<>>]
       /\ chunkData = [h \in Hashes |->
                         IF h = HashA THEN StoredData(h, order)
                         ELSE [x \in IdxNames |-> <<>>]]
  /\ IdleRequests

NextOrder ==
  \/ \E n \in Names : MergeStart("m1", HashA, n, Len(chunkList[HashA])) /\ UNCHANGED cliVars
  \/ MergeAfterReaddir("m1") /\ UNCHANGED cliVars
  \/ MergeAfterRead("m1") /\ UNCHANGED cliVars
  \/ MergeAfterWrite("m1") /\ UNCHANGED cliVars
  \/ MergeAfterYield("m1") /\ UNCHANGED cliVars
  \/ MergeAfterFinish("m1") /\ UNCHANGED cliVars
  \/ MergeAfterRemove("m1") /\ UNCHANGED cliVars

SpecOrder == InitOrder /\ [][NextOrder]_vars

\* ------------------------------------------------------------------ upload spec
\* Two chunk uploads (u1 sends FileA's bytes, u2 either file's) and one cleanup
\* for the same fingerprint, against a store that holds any set of complete chunks.
InitUpload ==
  /\ uploadsDir = [n \in Names |-> NoFile]
  /\ \E S \in SUBSET (0..(NumIdx - 1)) :
       LET order == [j \in 1..Cardinality(S) |->
                       toString(CHOOSE i \in S : Cardinality({y \in S : y < i}) = j - 1)]
       IN /\ chunkDirs = IF S = {} THEN {} ELSE {HashA}
          /\ chunkList = [h \in Hashes |-> IF h = HashA THEN order ELSE <<>>]
          /\ chunkData = [h \in Hashes |->
                            IF h = HashA THEN StoredData(h, order)
                            ELSE [x \in IdxNames |-> <<>>]]
  /\ IdleRequests

UploadIdx == {toString(i) : i \in 0..(NumIdx - 1)}

NextUpload ==
  \/ \E x \in UploadIdx : UploadStart("u1", HashA, x, FileA.content) /\ UNCHANGED cliVars
  \/ \E x \in UploadIdx, v \in Versions : UploadStart("u2", HashA, x, v) /\ UNCHANGED cliVars
  \/ \E u \in UploadIds : UploadOpen(u) /\ UNCHANGED cliVars
  \/ \E u \in UploadIds : UploadWrite(u) /\ UNCHANGED cliVars
  \/ \E u \in UploadIds : UploadFinish(u) /\ UNCHANGED cliVars
  \/ \E u \in UploadIds : UploadAbort(u) /\ UNCHANGED cliVars
  \/ \E x \in UploadIdx : CleanupStart("c1", HashA, x) /\ UNCHANGED cliVars
  \/ CleanupAfterAccess("c1") /\ UNCHANGED cliVars
  \/ CleanupAfterUnlink("c1") /\ UNCHANGED cliVars
  \/ CleanupAbort("c1") /\ UNCHANGED cliVars

SpecUpload == InitUpload /\ [][NextUpload]_vars

\* ------------------------------------------------------------------ resume spec
\* The requests of a resuming client against a store that earlier uploads
\* left: an upload or a cleanup and a merge do not overlap, a status check
\* arrives at any time, and every request may be aborted.
UploadsAtRest ==
  /\ \A u \in UploadIds : upload[u].pc \in {"idle", "done"}
  /\ \A c \in CleanupIds : cleanup[c].pc \in {"idle", "done"}

MergesIdle == \A m \in MergeIds : merge[m].pc = "idle"

NextResume ==
  \/ \E x \in UploadIdx :
       MergesIdle /\ UploadStart("u1", HashA, x, FileA.content) /\ UNCHANGED cliVars
  \/ UploadOpen("u1") /\ UNCHANGED cliVars
  \/ UploadWrite("u1") /\ UNCHANGED cliVars
  \/ UploadFinish("u1") /\ UNCHANGED cliVars
  \/ UploadAbort("u1") /\ UNCHANGED cliVars
  \/ \E x \in UploadIdx : MergesIdle /\ CleanupStart("c1", HashA, x) /\ UNCHANGED cliVars
  \/ CleanupAfterAccess("c1") /\ UNCHANGED cliVars
  \/ CleanupAfterUnlink("c1") /\ UNCHANGED cliVars
  \/ \E h \in Hashes, n \in Names : CheckStart("k1", h, n) /\ UNCHANGED cliVars
  \/ CheckAfterAccess("k1") /\ UNCHANGED cliVars
  \/ CheckAfterAccessDir("k1") /\ UNCHANGED cliVars
  \/ CheckAfterReaddir("k1") /\ UNCHANGED cliVars
  \/ CheckAbort("k1") /\ UNCHANGED cliVars
  \/ \E n \in Names, t \in 0..NumIdx :
       UploadsAtRest /\ MergeStart("m1", HashA, n, t) /\ UNCHANGED cliVars
  \/ MergeAfterReaddir("m1") /\ UNCHANGED cliVars
  \/ MergeAfterRead("m1") /\ UNCHANGED cliVars
  \/ MergeAfterWrite("m1") /\ UNCHANGED cliVars
  \/ MergeAfterYield("m1") /\ UNCHANGED cliVars
  \/ MergeAfterFinish("m1") /\ UNCHANGED cliVars
  \/ MergeAfterRemove("m1") /\ UNCHANGED cliVars
  \/ MergeAbort("m1") /\ UNCHANGED cliVars

SpecResume == InitUpload /\ [][NextResume]_vars

\* ------------------------------------------------------------------ fault spec
\* A merge during which a chunk read or a destination write may fail, and the
\* same merge requested again once the first has answered.
NextFault ==
  \/ \E n \in Names, t \in 0..NumIdx : MergeStart("m1", HashA, n, t) /\ UNCHANGED cliVars
  \/ /\ merge["m1"].pc = "done"
     /\ MergeStart("m2", merge["m1"].hash, merge["m1"].filename, merge["m1"].total)
     /\ UNCHANGED cliVars
  \/ \E m \in MergeIds : MergeAfterReaddir(m) /\ UNCHANGED cliVars
  \/ \E m \in MergeIds : MergeAfterRead(m) /\ UNCHANGED cliVars
  \/ \E m \in MergeIds : MergeAfterWrite(m) /\ UNCHANGED cliVars
  \/ \E m \in MergeIds : MergeAfterYield(m) /\ UNCHANGED cliVars
  \/ \E m \in MergeIds : MergeAfterFinish(m) /\ UNCHANGED cliVars
  \/ \E m \in MergeIds : MergeAfterRemove(m) /\ UNCHANGED cliVars
  \/ MergeReadFails("m1") /\ UNCHANGED cliVars
  \/ MergeWriteFails("m1") /\ UNCHANGED cliVars
  \/ MergeAbort("m1") /\ UNCHANGED cliVars

SpecFault == InitMerge /\ [][NextFault]_vars

\* ------------------------------------------------------------------ race spec
\* Two merge requests for the same upload, in flight at the same time.
NextRace ==
  \/ \E m \in MergeIds, n \in Names, t \in 0..NumIdx :
       MergeStart(m, HashA, n, t) /\ UNCHANGED cliVars
  \/ \E m \in MergeIds : MergeAfterReaddir(m) /\ UNCHANGED cliVars
  \/ \E m \in MergeIds : MergeAfterRead(m) /\ UNCHANGED cliVars
  \/ \E m \in MergeIds : MergeAfterWrite(m) /\ UNCHANGED cliVars
  \/ \E m \in MergeIds : MergeAfterYield(m) /\ UNCHANGED cliVars
  \/ \E m \in MergeIds : MergeAfterFinish(m) /\ UNCHANGED cliVars
  \/ \E m \in MergeIds : MergeAfterRemove(m) /\ UNCHANGED cliVars
  \/ \E m \in MergeIds : MergeAbort(m) /\ UNCHANGED cliVars

SpecRace == InitMerge /\ [][NextRace]_vars

\* ------------------------------------------------------------------ check spec
\* Status checks whose body may lack the fingerprint or the name, beside a
\* merge that puts an artifact under the name.
NextCheck ==
  \/ \E h \in Hashes \cup {Undefined}, n \in Names \cup {Undefined} :
       CheckStart("k1", h, n) /\ UNCHANGED cliVars
  \/ CheckAfterAccess("k1") /\ UNCHANGED cliVars
  \/ CheckAfterAccessDir("k1") /\ UNCHANGED cliVars
  \/ CheckAfterReaddir("k1") /\ UNCHANGED cliVars
  \/ CheckAbort("k1") /\ UNCHANGED cliVars
  \/ \E n \in Names, t \in 0..NumIdx : MergeStart("m1", HashA, n, t) /\ UNCHANGED cliVars
  \/ MergeAfterReaddir("m1") /\ UNCHANGED cliVars
  \/ MergeAfterRead("m1") /\ UNCHANGED cliVars
  \/ MergeAfterWrite("m1") /\ UNCHANGED cliVars
  \/ MergeAfterYield("m1") /\ UNCHANGED cliVars
  \/ MergeAfterFinish("m1") /\ UNCHANGED cliVars
  \/ MergeAfterRemove("m1") /\ UNCHANGED cliVars

SpecCheck == InitMerge /\ [][NextCheck]_vars

\* ------------------------------------------------------------------ missing-field spec
\* Uploads, cleanups and merges whose fingerprint, index or name may be absent,
\* against a store that earlier uploads left.
HashOrNone == {HashA, NoHash}

IdxOrNone == UploadIdx \cup {<<>>}

NextMissing ==
  \/ \E h \in HashOrNone, x \in IdxOrNone :
       UploadStart("u1", h, x, FileA.content) /\ UNCHANGED cliVars
  \/ UploadOpen("u1") /\ UNCHANGED cliVars
  \/ UploadWrite("u1") /\ UNCHANGED cliVars
  \/ UploadFinish("u1") /\ UNCHANGED cliVars
  \/ UploadAbort("u1") /\ UNCHANGED cliVars
  \/ \E h \in HashOrNone, x \in IdxOrNone : CleanupStart("c1", h, x) /\ UNCHANGED cliVars
  \/ CleanupAfterAccess("c1") /\ UNCHANGED cliVars
  \/ CleanupAfterUnlink("c1") /\ UNCHANGED cliVars
  \/ \E h \in {HashA, Undefined}, n \in Names \cup {Undefined}, t \in 0..NumIdx :
       UploadsAtRest /\ MergeStart("m1", h, n, t) /\ UNCHANGED cliVars
  \/ MergeAfterReaddir("m1") /\ UNCHANGED cliVars
  \/ MergeAfterRead("m1") /\ UNCHANGED cliVars
  \/ MergeAfterWrite("m1") /\ UNCHANGED cliVars
  \/ MergeAfterYield("m1") /\ UNCHANGED cliVars
  \/ MergeAfterFinish("m1") /\ UNCHANGED cliVars
  \/ MergeAfterRemove("m1") /\ UNCHANGED cliVars

SpecMissing == InitUpload /\ [][NextMissing]_vars

\* ------------------------------------------------------------------ cleanup spec
\* A cleanup and, once it has answered, the same cleanup again, after an upload
\* for a second fingerprint has come to rest.
CleanupsIdle == \A c \in CleanupIds : cleanup[c].pc = "idle"

NextCleanup ==
  \/ \E x \in UploadIdx :
       CleanupsIdle /\ UploadStart("u1", HashB, x, FileB.content) /\ UNCHANGED cliVars
  \/ UploadOpen("u1") /\ UNCHANGED cliVars
  \/ UploadWrite("u1") /\ UNCHANGED cliVars
  \/ UploadFinish("u1") /\ UNCHANGED cliVars
  \/ UploadAbort("u1") /\ UNCHANGED cliVars
  \/ \E h \in Hashes, x \in UploadIdx :
       /\ \A u \in UploadIds : upload[u].pc \in {"idle", "done"}
       /\ CleanupStart("c1", h, x)
       /\ UNCHANGED cliVars
  \/ /\ cleanup["c1"].pc = "done"
     /\ CleanupStart("c2", cleanup["c1"].hash, cleanup["c1"].index)
     /\ UNCHANGED cliVars
  \/ \E c \in CleanupIds : CleanupAfterAccess(c) /\ UNCHANGED cliVars
  \/ \E c \in CleanupIds : CleanupAfterUnlink(c) /\ UNCHANGED cliVars
  \/ \E c \in CleanupIds : CleanupAbort(c) /\ UNCHANGED cliVars

SpecCleanup == InitUpload /\ [][NextCleanup]_vars

\* ------------------------------------------------------------------ utility spec
\* createFileChunks and calculateHash applied to files of any size, name,
\* modification time and content, with any chunk size.
UtilNames == {<<"a">>, <<"b", ".">>, <<"b", "_">>}

UtilFiles ==
  [name : UtilNames, lastModified : 1..2, content : 1..2, size : 0..MaxSize]

InitUtil ==
  /\ uploadsDir = [n \in Names |-> NoFile]
  /\ chunkDirs = {}
  /\ chunkList = [h \in Hashes |-> <<>>]
  /\ chunkData = [h \in Hashes |-> [x \in IdxNames |-> <<>>]]
  /\ cl = ClientIdle
  /\ sent = <<>>
  /\ merge = [m \in MergeIds |-> MergeIdle]
  /\ check = [k \in CheckIds |-> CheckIdle]
  /\ upload = [u \in UploadIds |-> UploadIdle]
  /\ cleanup = [c \in CleanupIds |-> CleanupIdle]
  /\ \E f \in UtilFiles, g \in UtilFiles, c \in 1..MaxChunkSize :
       util = [UtilIdle EXCEPT !.file = f, !.other = g, !.chunkSize = c]

\* createFileChunks(file, chunkSize)
UtilChunk ==
  /\ util.op = "none"
  /\ util' = [util EXCEPT !.op = "chunked",
                          !.chunks = createFileChunks(util.file, util.chunkSize)]
  /\ UNCHANGED <<srvVars, cl, sent>>

\* createFileChunks(file, chunkSize) once more, as a retry does
UtilChunkAgain ==
  /\ util.op = "chunked"
  /\ util' = [util EXCEPT !.op = "rechunked",
                          !.again = createFileChunks(util.file, util.chunkSize)]
  /\ UNCHANGED <<srvVars, cl, sent>>

\* calculateHash(file) for both files
UtilHash ==
  /\ util.op = "none"
  /\ util' = [util EXCEPT !.op = "hashed", !.hash = calculateHash(util.file),
                          !.otherHash = calculateHash(util.other)]
  /\ UNCHANGED <<srvVars, cl, sent>>

NextUtil == UtilChunk \/ UtilChunkAgain \/ UtilHash

SpecUtil == InitUtil /\ [][NextUtil]_vars

\* ------------------------------------------------------------------ overlap spec
\* A merge of a fingerprint while uploads and cleanups of its chunks arrive.
NextOverlap ==
  \/ \E x \in UploadIdx : UploadStart("u1", HashA, x, FileA.content) /\ UNCHANGED cliVars
  \/ UploadOpen("u1") /\ UNCHANGED cliVars
  \/ UploadWrite("u1") /\ UNCHANGED cliVars
  \/ UploadFinish("u1") /\ UNCHANGED cliVars
  \/ UploadAbort("u1") /\ UNCHANGED cliVars
  \/ \E x \in UploadIdx : CleanupStart("c1", HashA, x) /\ UNCHANGED cliVars
  \/ CleanupAfterAccess("c1") /\ UNCHANGED cliVars
  \/ CleanupAfterUnlink("c1") /\ UNCHANGED cliVars
  \/ \E n \in Names, t \in 0..NumIdx : MergeStart("m1", HashA, n, t) /\ UNCHANGED cliVars
  \/ MergeAfterReaddir("m1") /\ UNCHANGED cliVars
  \/ MergeAfterRead("m1") /\ UNCHANGED cliVars
  \/ MergeAfterWrite("m1") /\ UNCHANGED cliVars
  \/ MergeAfterYield("m1") /\ UNCHANGED cliVars
  \/ MergeAfterFinish("m1") /\ UNCHANGED cliVars
  \/ MergeAfterRemove("m1") /\ UNCHANGED cliVars

SpecOverlap == InitUpload /\ [][NextOverlap]_vars

(***************************************************************************)
(* The orchestrator: FileUploader.tsx over the upload service.  One action *)
(* is one run of the event loop from an event (a selection, a click, a     *)
(* response, a timer) to the next await of every coroutine it resumes.     *)
(***************************************************************************)

NoRequest ==
  [kind |-> "none", hash |-> NoHash, name |-> <<>>, index |-> <<>>, total |-> 0,
   ver |-> 0, tag |-> <<0, 0>>]

\* which file of which selection the orchestrator is at
Tag(c) == <<c.batches, c.fi>>

\* handleFileChange, after the loop: the unconditional 'success'
EndBatch(c) ==
  [cl |-> [c EXCEPT !.pc = "idle", !.status = "success", !.files = <<>>, !.fi = 0,
                    !.hash = NoHash, !.chunks = 0, !.ci = 0, !.uploaded = {},
                    !.completed = 0],
   out |-> NoRequest]

\* an entry guard that lets every file through
SkipsFileNever(c) == FALSE

\* handleFileUpload's entry guard
SkipsFile(c) == c.isCancelling \/ c.isCancelledRef

\* handleFileChange's loop at file i: handleFileUpload up to its first await.
\* A skipped file leaves the flags as they are, so every later file is
\* skipped as well and the loop ends.
BeginFile(c, i) ==
  IF i > Len(c.files) \/ SkipsFile(c)
  THEN EndBatch(c)
  ELSE LET f == c.files[i]
       IN [cl |-> [c EXCEPT !.fi = i, !.isCancelledRef = FALSE, !.svcCancelled = FALSE,
                            !.ctrl = "check", !.hash = calculateHash(f),
                            !.chunks = Len(createFileChunks(f, ChunkSize)), !.ci = 0,
                            !.uploaded = {}, !.completed = 0,
                            !.status = "uploading", !.pc = "check"],
           out |-> [NoRequest EXCEPT !.kind = "check", !.hash = calculateHash(f),
                                     !.name = f.name, !.tag = <<c.batches, i>>]]

\* handleFileUpload's finally block
Finally(c) == [c EXCEPT !.ctrl = "none", !.cur = NoUpload, !.isCancelling = FALSE]

\* handleFileUpload returns; handleFileChange goes on with the next file
FileDone(c) == BeginFile(Finally(c), c.fi + 1)

\* handleFileUpload's outer catch
FileError(c) == FileDone([c EXCEPT !.status = "error", !.errors = c.errors \cup {Tag(c)}])

\* a loop that takes no chunk for stored
AlreadyStoredNever(c, j) == FALSE

\* uploadedChunks.has(chunk.index.toString())
AlreadyStored(c, j) == toString(j) \in c.uploaded

\* an orchestrator that records no chunk as being in flight
InFlightNone(c, j) == NoUpload

\* currentUploadRef.current = { hash, index: chunk.index, chunk: chunk.file }
InFlight(c, j) == [set |-> TRUE, hash |-> c.hash, index |-> j]

\* the chunk loop from chunk j up to the next await
RECURSIVE ChunkLoop(_, _)
ChunkLoop(c, j) ==
  IF j >= c.chunks
  THEN IF c.isCancelledRef THEN FileDone(c)
       ELSE IF c.svcCancelled THEN FileError([c EXCEPT !.ctrl = "merge"])
       ELSE [cl |-> [c EXCEPT !.ctrl = "merge", !.pc = "merge", !.ci = j],
             out |-> [NoRequest EXCEPT !.kind = "merge", !.hash = c.hash,
                                       !.name = c.files[c.fi].name,
                                       !.total = c.chunks, !.tag = Tag(c)]]
  ELSE IF c.isCancelledRef THEN FileDone(c)
  ELSE IF AlreadyStored(c, j)
  THEN ChunkLoop([c EXCEPT !.completed = c.completed + 1], j + 1)
  ELSE IF c.svcCancelled
  THEN FileDone([c EXCEPT !.cur = NoUpload, !.ctrl = "upload", !.isCancelledRef = TRUE])
  ELSE [cl |-> [c EXCEPT !.cur = InFlight(c, j),
                         !.ctrl = "upload", !.pc = "upload", !.ci = j],
        out |-> [NoRequest EXCEPT !.kind = "upload", !.hash = c.hash,
                                  !.index = toString(j),
                                  !.ver = c.files[c.fi].content, !.tag = Tag(c)]]

\* an orchestrator that ignores exists
FastPathNever(resp) == FALSE

\* the branch on checkResult.data.exists
FastPath(resp) == resp.exists

\* every handler on the server has returned, or hangs for good
ServerAtRest ==
  /\ check["k1"].pc \in {"idle", "done"}
  /\ upload["u1"].pc \in {"idle", "done"}
  /\ cleanup["c1"].pc \in {"idle", "done"}
  /\ \/ merge["m1"].pc \in {"idle", "done"}
     \/ merge["m1"].pc = "waitFinish" /\ merge["m1"].ws = "destroyed"

\* the connection a request travels on
SlotOf(out) ==
  CASE out.kind = "check" -> {"k1"}
    [] out.kind = "upload" -> {"u1"}
    [] out.kind = "merge" -> {"m1"}
    [] out.kind = "cleanup" -> {"c1"}
    [] OTHER -> {}

\* the request leaves the client and its handler starts on the server; fresh
\* says that the handlers of earlier requests are forgotten
SendTo(out, fresh) ==
  /\ check' =
       IF out.kind = "check"
       THEN [check EXCEPT !["k1"] = [CheckIdle EXCEPT !.pc = "access", !.hash = out.hash,
                                                      !.filename = out.name]]
       ELSE IF fresh THEN [k \in CheckIds |-> CheckIdle] ELSE check
  /\ upload' =
       IF out.kind = "upload"
       THEN [upload EXCEPT !["u1"] = [UploadIdle EXCEPT !.pc = "parsing", !.hash = out.hash,
                                                        !.index = out.index,
                                                        !.ver = out.ver]]
       ELSE IF fresh THEN [u \in UploadIds |-> UploadIdle] ELSE upload
  /\ merge' =
       IF out.kind = "merge"
       THEN [merge EXCEPT !["m1"] = [MergeIdle EXCEPT !.pc = "readdir", !.hash = out.hash,
                                                      !.filename = out.name,
                                                      !.total = out.total]]
       ELSE IF fresh THEN [m \in MergeIds |-> MergeIdle] ELSE merge
  /\ cleanup' =
       IF out.kind = "cleanup"
       THEN [cleanup EXCEPT !["c1"] = [CleanupIdle EXCEPT !.pc = "access",
                                                          !.hash = out.hash,
                                                          !.index = out.index]]
       ELSE IF fresh THEN [c \in CleanupIds |-> CleanupIdle] ELSE cleanup
  /\ UNCHANGED <<uploadsDir, chunkDirs, chunkList, chunkData>>

\* the requests of one run are sequential: the connection of the next one is
\* free when it is sent
ClientStep(r) ==
  /\ cl' = r.cl
  /\ sent' = IF r.out.kind = "none" THEN sent ELSE Append(sent, r.out)
  /\ UNCHANGED util
  /\ SendTo(r.out, FALSE)

\* the user selects files, the server being at rest: handleFileChange up to the
\* first await.  The log of requests starts afresh.
ClientStartBatch(fs) ==
  /\ cl.pc = "idle"
  /\ cl.batches < MaxBatches
  /\ ServerAtRest
  /\ LET r == BeginFile([cl EXCEPT !.files = fs, !.batches = cl.batches + 1,
                                   !.status = "uploading", !.aborted = {},
                                   !.fast = {}], 1)
     IN /\ cl' = r.cl
        /\ sent' = IF r.out.kind = "none" THEN <<>> ELSE <<r.out>>
        /\ UNCHANGED util
        /\ SendTo(r.out, TRUE)

\* an orchestrator that takes a missing list for a full one
UploadedSetOrAll(resp) ==
  IF resp.listed THEN Range(resp.uploadedChunks) ELSE IdxNames

\* new Set(checkResult.data.uploadedChunks || [])
UploadedSet(resp) ==
  IF resp.listed THEN Range(resp.uploadedChunks) ELSE {}

\* checkFileStatus answers
ClientAfterCheck ==
  /\ cl.pc = "check"
  /\ check["k1"].resp # <<>>
  /\ LET resp == check["k1"].resp[1]
     IN ClientStep(
          IF resp.status # 200 THEN FileError(cl)
          ELSE IF cl.isCancelledRef THEN FileDone(cl)
          ELSE IF FastPath(resp)
          THEN [cl |-> [cl EXCEPT !.status = "rapid-success", !.pc = "rapid",
                                  !.fast = cl.fast \cup {Tag(cl)}],
                out |-> NoRequest]
          ELSE ChunkLoop([cl EXCEPT !.uploaded = UploadedSet(resp),
                                    !.completed = 0], 0))

\* the one-second pause of the fast path ends
ClientAfterRapid ==
  /\ cl.pc = "rapid"
  /\ ClientStep(FileDone(cl))

\* uploadChunk answers
ClientAfterUpload ==
  /\ cl.pc = "upload"
  /\ upload["u1"].resp # <<>>
  /\ LET resp == upload["u1"].resp[1]
         c == [cl EXCEPT !.cur = NoUpload]
     IN ClientStep(
          IF resp.status = 200
          THEN ChunkLoop([c EXCEPT !.completed =
                            IF c.isCancelledRef THEN c.completed ELSE c.completed + 1],
                         cl.ci + 1)
          ELSE IF resp.status = 499
          THEN FileDone([c EXCEPT !.isCancelledRef = TRUE])
          ELSE FileError(c))

\* mergeChunks answers
ClientAfterMerge ==
  /\ cl.pc = "merge"
  /\ merge["m1"].resp # <<>>
  /\ ClientStep(IF merge["m1"].resp[1].status = 200 THEN FileDone(cl) ELSE FileError(cl))

\* the server slot of the request the orchestrator awaits
Awaited(c) ==
  CASE c.pc = "check" -> {"k1"}
    [] c.pc = "upload" -> {"u1"}
    [] c.pc = "merge" -> {"m1"}
    [] OTHER -> {}

\* an orchestrator that answers a rejected request by asking for the merge
RejectedThenMerges(c) ==
  [cl |-> [c EXCEPT !.pc = "merge", !.ctrl = "merge"],
   out |-> [NoRequest EXCEPT !.kind = "merge", !.hash = c.hash,
                             !.name = c.files[c.fi].name, !.total = c.chunks,
                             !.tag = Tag(c)]]

\* an orchestrator that answers a rejected request by uploading the chunk at hand
RejectedThenUploads(c) ==
  [cl |-> [c EXCEPT !.pc = "upload", !.ctrl = "upload"],
   out |-> [NoRequest EXCEPT !.kind = "upload", !.hash = c.hash,
                             !.index = toString(c.ci),
                             !.ver = c.files[c.fi].content, !.tag = Tag(c)]]

\* handleFileUpload resumed by the rejection of the request it awaits: the
\* cancel messages of the status check and of the upload are recognised and
\* the function returns; the one of the merge is not, and the outer catch runs
Rejected(c) == IF c.pc = "merge" THEN FileError(c) ELSE FileDone(c)

\* the user clicks cancel: cancelUpload up to its first await, then the
\* rejected request resumes handleFileUpload, which returns through its
\* catch blocks, and handleFileChange runs to its end
ClientCancel ==
  /\ cl.status = "uploading"
  /\ ~cl.isCancelling
  /\ LET c1 == [cl EXCEPT !.isCancelling = TRUE, !.isCancelledRef = TRUE,
                          !.svcCancelled = TRUE,
                          !.aborted = IF cl.ctrl = "none" THEN cl.aborted
                                      ELSE cl.aborted \cup Awaited(cl),
                          !.ctrl = IF cl.cur.set THEN "cleanup" ELSE "none",
                          !.cpc = IF cl.cur.set THEN "cleanup" ELSE "delay",
                          !.cur = NoUpload,
                          !.cancels = cl.cancels \cup {<<cl.batches, cl.fi, Len(cl.files)>>}]
         resumed == Rejected(c1)
         out == IF cl.cur.set
                THEN [NoRequest EXCEPT !.kind = "cleanup", !.hash = cl.cur.hash,
                                       !.index = toString(cl.cur.index), !.tag = Tag(cl)]
                ELSE resumed.out
     IN ClientStep([cl |-> resumed.cl, out |-> out])

\* Promise.allSettled(cancelPromises) settles
ClientCleanupSettled ==
  /\ cl.cpc = "cleanup"
  /\ cleanup["c1"].resp # <<>>
  /\ cl' = [cl EXCEPT !.cpc = "delay"]
  /\ UNCHANGED <<sent, util, uploadsDir, chunkDirs, chunkList, chunkData, merge,
                 check, upload, cleanup>>

\* the 100 ms pause ends: status 'cancelled', finally setIsCancelling(false)
ClientCancelDone ==
  /\ cl.cpc = "delay"
  /\ cl' = [cl EXCEPT !.cpc = "idle", !.status = "cancelled", !.isCancelling = FALSE]
  /\ UNCHANGED <<sent, util, uploadsDir, chunkDirs, chunkList, chunkData, merge,
                 check, upload, cleanup>>

\* the page is reloaded: the browser drops every request in flight and the
\* component mounts again with its initial state
ClientReload ==
  /\ cl.batches \in 1..(MaxBatches - 1)
  /\ cl' = [ClientIdle EXCEPT !.batches = cl.batches, !.fast = cl.fast,
                              !.cancels = cl.cancels, !.errors = cl.errors,
                              !.aborted = cl.aborted \cup Awaited(cl)
                                            \cup (IF cl.cpc = "cleanup" THEN {"c1"} ELSE {})]
  /\ UNCHANGED <<sent, util, uploadsDir, chunkDirs, chunkList, chunkData, merge,
                 check, upload, cleanup>>

\* the selections a user can make
Batches == UNION {[1..n -> Files] : n \in 1..MaxFiles}

\* a fresh server and a freshly mounted component
InitClient ==
  /\ uploadsDir = [n \in Names |-> NoFile]
  /\ chunkDirs = {}
  /\ chunkList = [h \in Hashes |-> <<>>]
  /\ chunkData = [h \in Hashes |-> [x \in IdxNames |-> <<>>]]
  /\ IdleRequests

NextClient ==
  \/ \E fs \in Batches : ClientStartBatch(fs)
  \/ ClientAfterCheck
  \/ ClientAfterRapid
  \/ ClientAfterUpload
  \/ ClientAfterMerge
  \/ ClientCancel
  \/ ClientCleanupSettled
  \/ ClientCancelDone
  \/ ClientReload
  \/ CheckAfterAccess("k1") /\ UNCHANGED cliVars
  \/ CheckAfterAccessDir("k1") /\ UNCHANGED cliVars
  \/ CheckAfterReaddir("k1") /\ UNCHANGED cliVars
  \/ "k1" \in cl.aborted /\ CheckAbort("k1") /\ UNCHANGED cliVars
  \/ UploadOpen("u1") /\ UNCHANGED cliVars
  \/ UploadWrite("u1") /\ UNCHANGED cliVars
  \/ UploadFinish("u1") /\ UNCHANGED cliVars
  \/ "u1" \in cl.aborted /\ UploadAbort("u1") /\ UNCHANGED cliVars
  \/ MergeAfterReaddir("m1") /\ UNCHANGED cliVars
  \/ MergeAfterRead("m1") /\ UNCHANGED cliVars
  \/ MergeAfterWrite("m1") /\ UNCHANGED cliVars
  \/ MergeAfterYield("m1") /\ UNCHANGED cliVars
  \/ MergeAfterFinish("m1") /\ UNCHANGED cliVars
  \/ MergeAfterRemove("m1") /\ UNCHANGED cliVars
  \/ "m1" \in cl.aborted /\ MergeAbort("m1") /\ UNCHANGED cliVars
  \/ CleanupAfterAccess("c1") /\ UNCHANGED cliVars
  \/ CleanupAfterUnlink("c1") /\ UNCHANGED cliVars
  \/ "c1" \in cl.aborted /\ CleanupAbort("c1") /\ UNCHANGED cliVars

SpecClient == InitClient /\ [][NextClient]_vars

\* the same with a server whose chunk reads and destination writes may fail
NextClientFault ==
  \/ NextClient
  \/ MergeReadFails("m1") /\ UNCHANGED cliVars
  \/ MergeWriteFails("m1") /\ UNCHANGED cliVars

SpecClientFault == InitClient /\ [][NextClientFault]_vars

\* an empty file: createFileChunks yields no chunk for it
FileZ == [name |-> <<"a">>, lastModified |-> 1, content |-> 1, size |-> 0]

\* selections that may hold the empty file
BatchesWithEmpty == UNION {[1..n -> {FileZ, FileB}] : n \in 1..MaxFiles}

NextEmpty ==
  \/ \E fs \in BatchesWithEmpty : ClientStartBatch(fs)
  \/ NextClient

SpecEmpty == InitClient /\ [][NextEmpty]_vars

\* uploads and cleanups against a server that has stored nothing yet
SpecFresh == InitClient /\ [][NextUpload]_vars

\* ------------------------------------------------------------------ claims
\* the bytes of a file of content version v cut into t chunks, in index order
RECURSIVE Assembled(_, _)
Assembled(v, t) == IF t = 0 THEN <<>> ELSE Assembled(v, t - 1) \o Payload(v, t - 1)

LastResp(r) == r.resp[Len(r.resp)]

Answered(r, status) == r.resp # <<>> /\ LastResp(r).status = status

\* the step in which merge m learns the chunk list of an existing staging area
\* whose size differs from the declared total
MismatchStep(m) ==
  /\ merge[m].pc = "readdir"
  /\ merge'[m].pc # "readdir"
  /\ merge[m].hash \in chunkDirs
  /\ Len(Readdir(merge[m].hash)) # merge[m].total

StoreUntouched ==
  /\ uploadsDir' = uploadsDir
  /\ chunkDirs' = chunkDirs
  /\ chunkList' = chunkList
  /\ chunkData' = chunkData

RejectedWithCounts(m) ==
  /\ merge'[m].pc = "done"
  /\ merge'[m].resp =
       <<Resp(400, Len(Readdir(merge[m].hash)), merge[m].total, <<>>)>>

\* C1 (as stated): every merge whose staging area exists and holds a number of
\* chunks other than the declared total answers 400 with both counts and leaves
\* the artifact and the Chunk Set untouched.
C1_MismatchAlways400 ==
  [][\A m \in MergeIds : MismatchStep(m) => RejectedWithCounts(m) /\ StoreUntouched]_vars

\* C1 (amended): the same for a merge that was not aborted before the chunk list
\* was read; an aborted one was already answered 499 and returns silently, and
\* in both cases nothing is created, truncated, modified or removed.
C1_MismatchRejected ==
  [][\A m \in MergeIds :
       MismatchStep(m) =>
         /\ StoreUntouched
         /\ ~merge[m].isAborted => RejectedWithCounts(m)
         /\ merge[m].isAborted => merge'[m].pc = "done" /\ merge'[m].resp = merge[m].resp]_vars

C1_Witness ==
  \E m \in MergeIds :
    /\ merge[m].pc = "done"
    /\ merge[m].resp = <<Resp(400, 1, 2, <<>>)>>
    /\ ~uploadsDir[merge[m].filename].ex
    /\ merge[m].hash \in chunkDirs

\* C2: a merge of chunks 0..N-1 that answers success has left one artifact whose
\* bytes are the chunks in ascending numeric index order, whatever order readdir
\* listed them in.
C2_MergedInNumericOrder ==
  \A m \in MergeIds :
    (merge[m].pc = "done" /\ Answered(merge[m], 200)) =>
      /\ uploadsDir[merge[m].filename].ex
      /\ uploadsDir[merge[m].filename].data =
           Assembled(FileOf(merge[m].hash).content, merge[m].total)
      /\ Cardinality({n \in Names : uploadsDir[n].ex}) = 1

C2_Witness ==
  \E m \in MergeIds :
    /\ merge[m].pc = "done"
    /\ Answered(merge[m], 200)
    /\ merge[m].total >= 11
    /\ merge[m].chunks # Readdir(merge[m].hash)
    /\ Len(uploadsDir[merge[m].filename].data) = merge[m].total * PayloadLen


\* the merge that created (or is creating) the file under name n
Creator(n) ==
  {m \in MergeIds : merge[m].filename = n /\ merge[m].hash = uploadsDir[n].from
                    /\ merge[m].ws # "none"}

\* the file record holds every declared chunk of the upload it was merged from
CompleteFile(f, total) ==
  f.ex /\ f.from \in Hashes /\ f.data = Assembled(FileOf(f.from).content, total)

\* C3: whenever a file exists under an artifact name it holds the complete
\* concatenation of the declared chunks, and a status check that answers
\* exists:true saw such a file.
C3_NeverPartiallyVisible ==
  /\ \A n \in Names : uploadsDir[n].ex =>
        \E m \in Creator(n) : CompleteFile(uploadsDir[n], merge[m].total)
  /\ \A k \in CheckIds : (check[k].resp # <<>> /\ LastResp(check[k]).exists) =>
        \E m \in MergeIds : CompleteFile(check[k].seen, merge[m].total)

\* C4: whenever a file exists under an artifact name, the staging area of the
\* fingerprint it was merged from is gone.
C4_ArtifactExcludesChunkSet ==
  \A n \in Names : uploadsDir[n].ex => uploadsDir[n].from \notin chunkDirs

\* the handler of merge m will take no further step
Quiescent(m) ==
  \/ merge[m].pc = "done"
  \/ merge[m].pc = "waitFinish" /\ merge[m].ws = "destroyed"

\* C5: a merge aborted between createWriteStream and the end of assembly (at a
\* chunk read, a chunk write, the yield, or the wait for 'finish') has, once its
\* handler has come to rest, left no file under the artifact name.
C5_AbortedMergeLeavesNoFile ==
  \A m \in MergeIds :
    (merge[m].abortedAt \in {"read", "write", "yield", "waitFinish"} /\ Quiescent(m)) =>
      ~uploadsDir[merge[m].filename].ex

\* C10: a status check that answers exists:true saw an artifact assembled from
\* the Chunk Set of the fingerprint it was asked about.
C10_FastPathSameFingerprint ==
  \A k \in CheckIds :
    (check[k].resp # <<>> /\ LastResp(check[k]).exists) =>
      check[k].seen.from = check[k].hash


OnPath(r, h, x) == r.hash = h /\ r.index = x

\* the server saw the abort of upload u after at least one piece was written
AbortedMidBody(u) == upload[u].isAborted /\ upload[u].pos >= 1

\* every upload other than u stays off the path of u
AloneOnPath(u) ==
  \A w \in UploadIds \ {u} : ~OnPath(upload[w], upload[u].hash, upload[u].index)

C6_ChunkGone ==
  \A u \in UploadIds, c \in CleanupIds :
    (/\ upload[u].isAborted
     /\ cleanup[c].pc = "done"
     /\ OnPath(cleanup[c], upload[u].hash, upload[u].index)
     /\ AloneOnPath(u))
    => ~ChunkExists(upload[u].hash, upload[u].index)

\* the step is the abort handling of an upload on (h, x), or a step of a cleanup
\* of (h, x)
CancelStep(h, x) ==
  \/ \E u \in UploadIds :
       OnPath(upload[u], h, x) /\ ~upload[u].isAborted /\ upload'[u].isAborted
  \/ \E c \in CleanupIds :
       OnPath(cleanup'[c], h, x) /\ cleanup'[c] # cleanup[c]

C6_OthersUntouched ==
  \A h \in Hashes, x \in IdxNames :
    CancelStep(h, x) =>
      \A g \in Hashes, y \in IdxNames :
        (g # h \/ y # x) =>
          /\ chunkData'[g][y] = chunkData[g][y]
          /\ (g \in chunkDirs' /\ y \in Range(chunkList'[g])) = ChunkExists(g, y)

\* C6: once the server has handled the abort of the upload of (h, i) and the
\* cleanup of (h, i) has completed, in either order, no file is left for index
\* i; and neither the abort handling nor the cleanup touches any other chunk.
C6_CancelRemovesOnlyThatChunk == []C6_ChunkGone /\ [][C6_OthersUntouched]_vars

C6_Witness ==
  \E u \in UploadIds, c \in CleanupIds :
    /\ AbortedMidBody(u)
    /\ AloneOnPath(u)
    /\ cleanup[c].pc = "done"
    /\ OnPath(cleanup[c], upload[u].hash, upload[u].index)
    /\ ~ChunkExists(upload[u].hash, upload[u].index)
    /\ \E y \in IdxNames :
         /\ y # upload[u].index
         /\ ChunkExists(upload[u].hash, y)
         /\ chunkData[upload[u].hash][y] = Payload(FileA.content, parseInt(y))

\* fewer bytes than the payload, or a gap in them
Truncated(data) == Len(data) < PayloadLen \/ \E j \in 1..Len(data) : data[j] = Hole

Writing(u, h, x) ==
  /\ OnPath(upload[u], h, x)
  /\ upload[u].pc = "writing"
  /\ upload[u].attached
  /\ ~upload[u].isAborted

\* C7: a chunk file that holds truncated data belongs to an upload that is still
\* being received; once an upload is aborted its partial file is gone, so a
\* merge that reads the Chunk Set while no upload is in flight reads only
\* complete payloads.
C7_NoTruncatedChunkAtRest ==
  \A h \in Hashes, x \in IdxNames :
    (ChunkExists(h, x) /\ Truncated(chunkData[h][x])) =>
      \E u \in UploadIds : Writing(u, h, x)

C7_Witness ==
  \E u \in UploadIds :
    /\ AbortedMidBody(u)
    /\ upload[u].pos < PayloadLen
    /\ ~ChunkExists(upload[u].hash, upload[u].index)
    /\ upload[u].hash \in chunkDirs

Completed(u) == upload[u].pc = "done" /\ ~upload[u].isAborted

\* C8: when two uploads of the same (fingerprint, index) have both completed
\* (and no cleanup was aimed at that chunk), both were answered 200 and the
\* Chunk Set holds one entry for the index: the bytes of the upload that
\* opened the file after the other had completed, or the common bytes if both
\* sent the same.
C8_ReuploadOverwrites ==
  \A u \in UploadIds : \A w \in UploadIds \ {u} :
    (/\ Completed(u) /\ Completed(w)
     /\ OnPath(upload[w], upload[u].hash, upload[u].index)
     /\ \A c \in CleanupIds : ~OnPath(cleanup[c], upload[u].hash, upload[u].index))
    => /\ upload[u].resp = <<UploadedResponse(upload[u].hash, upload[u].index)>>
       /\ ChunkExists(upload[u].hash, upload[u].index)
       /\ Cardinality({j \in 1..Len(chunkList[upload[u].hash]) :
                         chunkList[upload[u].hash][j] = upload[u].index}) = 1
       /\ (w \in upload[u].after \/ upload[u].ver = upload[w].ver) =>
            chunkData[upload[u].hash][upload[u].index] =
              Payload(upload[u].ver, parseInt(upload[u].index))

C8_Witness ==
  /\ Completed("u1") /\ Completed("u2")
  /\ OnPath(upload["u2"], upload["u1"].hash, upload["u1"].index)
  /\ "u1" \in upload["u2"].after
  /\ upload["u1"].ver # upload["u2"].ver
  /\ chunkData[upload["u2"].hash][upload["u2"].index] =
       Payload(upload["u2"].ver, parseInt(upload["u2"].index))

\* the orchestrator's step on a status answer that says exists:true
ReceivesExists ==
  /\ cl.pc = "check"
  /\ check["k1"].resp # <<>>
  /\ check["k1"].resp[1].status = 200
  /\ check["k1"].resp[1].exists
  /\ cl' # cl
  /\ cl'.cpc = cl.cpc
  /\ cl'.aborted = cl.aborted

C9_MovesToFastSuccess ==
  ReceivesExists =>
    /\ cl'.pc = "rapid"
    /\ cl'.status = "rapid-success"
    /\ cl'.fast = cl.fast \cup {Tag(cl)}
    /\ sent' = sent

C9_NoTransferForFastFile ==
  \A j \in 1..Len(sent) :
    sent[j].kind \in {"upload", "merge"} => sent[j].tag \notin cl.fast

\* C9: on a status answer exists:true the orchestrator goes straight to
\* 'rapid-success' without sending anything, and no chunk upload and no merge
\* is ever sent for that file.
C9_FastPathIssuesNoTransfer == [][C9_MovesToFastSuccess]_vars /\ []C9_NoTransferForFastFile

C9_Witness ==
  /\ cl.pc = "idle"
  /\ cl.status = "success"
  /\ \E t \in cl.fast :
       /\ \E j \in 1..Len(sent) : sent[j].kind = "check" /\ sent[j].tag = t
       /\ \A j \in 1..Len(sent) : sent[j].tag = t => sent[j].kind = "check"

\* the indices stored for fingerprint h: the names in its staging directory
StoredIndices(h) == IF h \in chunkDirs THEN Range(chunkList[h]) ELSE {}

\* the step in which status check k, not aborted, sends its answer
CheckAnswers(k) ==
  /\ ~check[k].isAborted
  /\ ~check'[k].isAborted
  /\ Len(check'[k].resp) > Len(check[k].resp)

C11_ExactStoredSet ==
  \A k \in CheckIds :
    (CheckAnswers(k) /\ ~uploadsDir[check[k].filename].ex) =>
      LET a == LastResp(check'[k])
      IN /\ a.status = 200
         /\ ~a.exists
         /\ Range(a.uploadedChunks) = StoredIndices(check[k].hash)
         /\ Len(a.uploadedChunks) = Cardinality(StoredIndices(check[k].hash))

\* merge m was never aborted and found exactly the indices 0..total-1
MergedCompleteSet(m) ==
  /\ merge[m].pc = "done"
  /\ ~merge[m].isAborted
  /\ merge[m].ws # "none"
  /\ Range(merge[m].chunks) = {toString(i) : i \in 0..(merge[m].total - 1)}

C11_CompleteSetMerges ==
  \A m \in MergeIds :
    MergedCompleteSet(m) =>
      /\ merge[m].resp = <<MergedResponse(merge[m].filename)>>
      /\ uploadsDir[merge[m].filename].ex
      /\ uploadsDir[merge[m].filename].data =
           Assembled(FileOf(merge[m].hash).content, merge[m].total)

NewlySent ==
  IF Len(sent') >= Len(sent) /\ SubSeq(sent', 1, Len(sent)) = sent
  THEN {sent'[j] : j \in (Len(sent) + 1)..Len(sent')}
  ELSE Range(sent')

\* C12: from the step that raises a cancellation on, no merge request is
\* dispatched for the file that was being transferred, whether the cancel
\* came during the status check, a chunk upload or the merge itself.
C12_NoMergeAfterCancel ==
  [][\A r \in NewlySent : r.kind = "merge" => r.tag \notin {<<t[1], t[2]>> : t \in cl'.cancels}]_vars

C12_Witness ==
  /\ cl.status = "cancelled"
  /\ \E t \in cl.cancels :
       /\ \E j \in 1..Len(sent) : sent[j].kind = "upload" /\ sent[j].tag = <<t[1], t[2]>>
       /\ \E j \in 1..Len(sent) : sent[j].kind = "cleanup" /\ sent[j].tag = <<t[1], t[2]>>
       /\ \A j \in 1..Len(sent) : sent[j].kind # "merge"

\* a cancellation was raised in the current selection
CancelledThisBatch == \E t \in cl.cancels : t[1] = cl.batches

\* C13: once a cancellation is raised in a selection, the reported status is
\* never 'success' or 'rapid-success' for that selection.
C13_CancelledNeverSuccess ==
  CancelledThisBatch => cl.status \notin {"success", "rapid-success"}

\* the requests of one selection are logged file by file
LoggedInFileOrder ==
  \A j \in 1..Len(sent) : \A k \in j..Len(sent) :
    /\ sent[j].tag[1] = sent[k].tag[1]
    /\ sent[j].tag[2] <= sent[k].tag[2]

\* the request the orchestrator awaits belongs to the one file it is at, and
\* it awaits nothing when it is at no file
OneFileActive ==
  /\ cl.pc \in {"check", "upload", "merge"} =>
        /\ cl.fi \in 1..Len(cl.files)
        /\ \E j \in 1..Len(sent) :
             /\ sent[j].tag = Tag(cl)
             /\ sent[j].kind = cl.pc
             /\ \A k \in (j + 1)..Len(sent) : sent[k].kind = "cleanup"
  /\ cl.pc = "idle" => cl.fi = 0

\* no status, upload or merge request is dispatched in a selection in which a
\* cancellation has been raised
NothingAfterCancel ==
  \A r \in NewlySent :
    r.kind # "cleanup" => r.tag[1] \notin {t[1] : t \in cl'.cancels}

\* C14: the files of a selection are processed one after another, one file
\* being active at a time, and once a cancellation is raised no file of the
\* selection sends a status, chunk-upload or merge request.
C14_SequentialAndStopsOnCancel ==
  [](LoggedInFileOrder /\ OneFileActive) /\ [][NothingAfterCancel]_vars

C14_Witness ==
  /\ cl.pc = "idle"
  /\ cl.status = "cancelled"
  /\ \E t \in cl.cancels :
       /\ t[1] = cl.batches
       /\ t[2] = 1
       /\ t[3] > t[2]
       /\ \E j \in 1..Len(sent) : sent[j].tag = <<t[1], 1>> /\ sent[j].kind = "upload"
       /\ \A j \in 1..Len(sent) : sent[j].tag[2] = 1

\* the indices of the upload requests logged for the file in progress
UploadsSent == {j \in 1..Len(sent) : sent[j].kind = "upload" /\ sent[j].tag = Tag(cl)}

\* the indices of the file in progress that the status answer did not report
Needed == {toString(i) : i \in 0..(cl.chunks - 1)} \ cl.uploaded

C15_UploadsExactlyMissing ==
  cl.pc \in {"upload", "merge"} =>
    /\ cl.chunks = Len(createFileChunks(cl.files[cl.fi], ChunkSize))
    /\ \A j \in UploadsSent : sent[j].index \in Needed
    /\ \A j \in UploadsSent : \A k \in UploadsSent : sent[j].index = sent[k].index => j = k
    /\ cl.pc = "merge" =>
         /\ {sent[j].index : j \in UploadsSent} = Needed
         /\ \E j \in 1..Len(sent) :
              sent[j].kind = "merge" /\ sent[j].tag = Tag(cl) /\ sent[j].total = cl.chunks

\* the stored set is the one the status answer reported, and the merge is
\* sent on the success of the last upload, or of the status check when
\* nothing was missing
C15_MergeAfterUploads ==
  /\ (cl.pc = "check" /\ cl'.pc \in {"upload", "merge"}) =>
        /\ check["k1"].resp # <<>>
        /\ check["k1"].resp[1].status = 200
        /\ cl'.uploaded = Range(check["k1"].resp[1].uploadedChunks)
  /\ (cl.pc = "upload" /\ cl'.pc \in {"upload", "merge"} /\ cl' # cl) =>
        /\ upload["u1"].resp # <<>>
        /\ upload["u1"].resp[1].status = 200
        /\ cl'.uploaded = cl.uploaded
  /\ (\E r \in NewlySent : r.kind = "merge") => cl.pc \in {"check", "upload"}

\* C15: for a file of chunks 0..N-1 and a status answer reporting the stored
\* set S, the orchestrator uploads exactly the indices of 0..N-1 not in S,
\* each once, and sends the merge with total N only after the last of them
\* has succeeded.
C15_ResumeSendsOnlyMissing ==
  []C15_UploadsExactlyMissing /\ [][C15_MergeAfterUploads]_vars

C15_Witness ==
  /\ cl.pc = "merge"
  /\ cl.chunks = 2
  /\ cl.uploaded = {toString(0)}
  /\ {sent[j].index : j \in UploadsSent} = {toString(1)}

\* the step in which a read or a write of merge m fails
FailsNow(m) == ~merge[m].ioFailed /\ merge'[m].ioFailed

C16_FailureRollsBack ==
  \A m \in MergeIds :
    FailsNow(m) =>
      /\ ~uploadsDir'[merge[m].filename].ex
      /\ merge'[m].pc = "done"
      /\ ~merge[m].isAborted => merge'[m].resp = <<Plain(500)>>
      /\ chunkDirs' = chunkDirs
      /\ chunkList' = chunkList
      /\ chunkData' = chunkData

C16_RetrySucceeds ==
  (merge["m1"].ioFailed /\ merge["m2"].pc = "done") =>
    /\ merge["m2"].resp = <<MergedResponse(merge["m2"].filename)>>
    /\ uploadsDir[merge["m2"].filename].ex
    /\ merge["m2"].chunks = merge["m1"].chunks
    /\ merge["m2"].hash \notin chunkDirs

\* C16: when a chunk read or a destination write fails during a merge, the
\* destination file is deleted, the answer is 500 and the Chunk Set is as it
\* was; the same merge requested again, with nothing uploaded in between,
\* then succeeds.
C16_FailedMergeCanBeRepeated == [][C16_FailureRollsBack]_vars /\ []C16_RetrySucceeds

C16_Witness ==
  /\ merge["m1"].ioFailed
  /\ merge["m1"].pos > 0
  /\ merge["m1"].resp = <<Plain(500)>>
  /\ merge["m2"].pc = "done"
  /\ merge["m2"].total = 2
  /\ uploadsDir[merge["m2"].filename].data =
       Assembled(FileOf(merge["m2"].hash).content, merge["m2"].total)

\* merge m has read the chunk list and has not yet deleted the Chunk Set
Merging(m) == merge[m].pc \in {"read", "write", "yield", "waitFinish", "remove"}

\* C17: no two merge requests for the same fingerprint, or for the same
\* artifact name, are at the same time between reading the chunk list and
\* deleting the Chunk Set.
C17_MergesSerialized ==
  \A m, w \in MergeIds :
    (m # w /\ Merging(m) /\ Merging(w)) =>
      (merge[m].hash # merge[w].hash /\ merge[m].filename # merge[w].filename)

C18_CheckStepKeepsStore == (check' # check) => StoreUntouched

\* C18: every step of a status check, whatever the other requests are doing,
\* leaves the artifacts root and every staging area as they were.
C18_CheckIsReadOnly == [][C18_CheckStepKeepsStore]_vars

C18_Witness ==
  /\ check["k1"].pc = "done"
  /\ Answered(check["k1"], 200)
  /\ LastResp(check["k1"]).listed
  /\ Len(LastResp(check["k1"]).uploadedChunks) = 2
  /\ Merging("m1")

\* the body of status check k lacks the fingerprint or the name
LacksField(k) == check[k].hash = Undefined \/ check[k].filename = Undefined

\* C19: a status request that lacks the fingerprint or the artifact name is
\* answered with a 4xx status.
C19_MissingFieldRejected ==
  \A k \in CheckIds :
    (check[k].pc = "done" /\ ~check[k].isAborted /\ LacksField(k)) =>
      /\ check[k].resp # <<>>
      /\ LastResp(check[k]).status \in 400..498

\* a status check that found neither an artifact nor a Chunk Set is answered
\* 200 with exists:false
C20_AbsentSetNotAnError ==
  \A k \in CheckIds :
    (/\ check[k].pc = "done"
     /\ ~check[k].isAborted
     /\ check[k].filename \in Names
     /\ ~uploadsDir[check[k].filename].ex
     /\ check[k].hash \notin chunkDirs) =>
      check[k].resp = <<CheckResp(200, FALSE, FALSE, <<>>)>>

\* on such an answer the orchestrator holds the empty set and sends chunk 0
C20_StartsFromFirstChunk ==
  (/\ cl.pc = "check"
   /\ cl'.pc # "check"
   /\ cl'.files = cl.files
   /\ check["k1"].resp = <<CheckResp(200, FALSE, FALSE, <<>>)>>
   /\ ~cl'.isCancelledRef) =>
     /\ cl'.pc = "upload"
     /\ cl'.uploaded = {}
     /\ \E r \in NewlySent : r.kind = "upload" /\ r.index = toString(0)

\* and by the time of the merge it has sent every chunk of the file
C20_AllChunksSent ==
  (cl.pc = "merge" /\ cl.uploaded = {}) =>
    {sent[j].index : j \in UploadsSent} = {toString(i) : i \in 0..(cl.chunks - 1)}

\* C20: a status request for a fingerprint with no Chunk Set and no artifact
\* is answered 200 with exists:false, which the orchestrator reads as the
\* empty set of stored indices, and the orchestrator then uploads every chunk.
C20_AbsentSetMeansUploadAll ==
  []C20_AbsentSetNotAnError /\ [][C20_StartsFromFirstChunk]_vars /\ []C20_AllChunksSent

C20_Witness ==
  /\ cl.pc = "merge"
  /\ cl.chunks = 2
  /\ cl.uploaded = {}
  /\ check["k1"].resp = <<CheckResp(200, FALSE, FALSE, <<>>)>>
  /\ {sent[j].index : j \in UploadsSent} = {toString(0), toString(1)}

\* upload u lacks the fingerprint header or the index header
LacksHeader(r) == r.hash = NoHash \/ r.index = <<>>

C21_Answered400 ==
  \A u \in UploadIds :
    (upload[u].pc = "done" /\ ~upload[u].isAborted /\ LacksHeader(upload[u])) =>
      upload[u].resp = <<Plain(400)>>

C21_NoChunkWritten ==
  \A u \in UploadIds :
    (upload'[u] # upload[u] /\ LacksHeader(upload'[u])) =>
      (chunkList' = chunkList /\ chunkData' = chunkData)

\* C21: a chunk upload that lacks the fingerprint header or the index header
\* is answered 400, and no step of it writes a chunk file.
C21_MissingHeaderIs400 == []C21_Answered400 /\ [][C21_NoChunkWritten]_vars

C21_Witness ==
  /\ upload["u1"].pc = "done"
  /\ upload["u1"].hash = HashA
  /\ upload["u1"].index = <<>>
  /\ upload["u1"].resp = <<Plain(400)>>
  /\ chunkList[HashA] # <<>>

\* a request that changes in this step and lacks a required identifier
StepOfLackingRequest ==
  \/ \E u \in UploadIds : upload'[u] # upload[u] /\ LacksHeader(upload'[u])
  \/ \E c \in CleanupIds :
       cleanup'[c] # cleanup[c] /\ (cleanup'[c].hash = NoHash \/ cleanup'[c].index = <<>>)
  \/ \E m \in MergeIds : merge'[m] # merge[m] /\ merge'[m].hash = Undefined

\* an answered request that lacks a required identifier was answered 4xx
LackingAnswered4xx ==
  /\ \A u \in UploadIds :
       (upload[u].pc = "done" /\ ~upload[u].isAborted /\ LacksHeader(upload[u])) =>
         LastResp(upload[u]).status \in 400..498
  /\ \A c \in CleanupIds :
       (cleanup[c].pc = "done" /\ (cleanup[c].hash = NoHash \/ cleanup[c].index = <<>>)) =>
         LastResp(cleanup[c]).status \in 400..498
  /\ \A m \in MergeIds :
       (merge[m].pc = "done" /\ merge[m].hash = Undefined) =>
         LastResp(merge[m]).status \in 400..498

\* C22: an upload, merge or cleanup in which a required fingerprint or index
\* is absent is answered with a client error and changes nothing on the
\* server: no staging directory, chunk or artifact is created or deleted.
C22_MissingIdentifierNoEffect ==
  []LackingAnswered4xx /\ [][StepOfLackingRequest => (StoreUntouched /\ chunkDirs' = chunkDirs)]_vars

\* C23: a staging area exists for a fingerprint exactly when at least one
\* chunk of that fingerprint is stored; none is left empty after a cleanup or
\* an abort has removed its last chunk.
C23_StagingAreaIffChunkStored ==
  \A h \in Hashes : (h \in chunkDirs) <=> (chunkList[h] # <<>>)

\* an unaborted cleanup answers success, and its chunk is then absent
C24_SucceedsAndChunkAbsent ==
  \A c \in CleanupIds :
    (cleanup[c].pc = "done" /\ ~cleanup[c].isAborted) =>
      /\ cleanup[c].resp = <<Plain(200)>>
      /\ ~ChunkExists(cleanup[c].hash, cleanup[c].index)

\* a step of a cleanup touches no artifact, no directory and no other chunk
C24_NarrowlyScoped ==
  \A c \in CleanupIds :
    (cleanup'[c] # cleanup[c]) =>
      /\ uploadsDir' = uploadsDir
      /\ chunkDirs' = chunkDirs
      /\ \A h \in Hashes, x \in IdxNames :
           (h # cleanup'[c].hash \/ x # cleanup'[c].index) =>
             /\ chunkData'[h][x] = chunkData[h][x]
             /\ (x \in Range(chunkList'[h])) <=> (x \in Range(chunkList[h]))

CeilDiv(s, c) == (s + c - 1) \div c

Min(a, b) == IF a < b THEN a ELSE b

C25_Partition ==
  util.op \in {"chunked", "rechunked"} =>
    LET s == util.file.size
        c == util.chunkSize
    IN /\ Len(util.chunks) = CeilDiv(s, c)
       /\ \A i \in 0..(CeilDiv(s, c) - 1) :
            /\ util.chunks[i + 1].index = i
            /\ util.chunks[i + 1].from = i * c
            /\ util.chunks[i + 1].to = Min((i + 1) * c, s)

C25_Restartable == util.op = "rechunked" => util.again = util.chunks

\* C25: for a file of size s >= 0 and a chunk size c > 0, createFileChunks
\* returns ceil(s/c) chunks, chunk i having index i and covering
\* [i*c, min((i+1)*c, s)); a second call on the same file returns the same.
C25_ChunksPartitionTheFile == C25_Partition /\ C25_Restartable

C25_Witness ==
  /\ util.op = "rechunked"
  /\ util.file.size = 5
  /\ util.chunkSize = 2
  /\ Len(util.chunks) = 3
  /\ util.chunks[3].to = 5

\* C26: two files with the same bytes have the same fingerprint, whatever
\* their names and modification times.
C26_FingerprintOfContentOnly ==
  (/\ util.op = "hashed"
   /\ util.file.content = util.other.content
   /\ util.file.size = util.other.size) =>
     util.hash = util.otherHash

\* the step in which the user cancels while the merge request is in flight
CancelDuringMerge == cl.pc = "merge" /\ cl'.cancels # cl.cancels

\* C27: a cancellation raised while the merge request is in flight never sets
\* the status of that file to 'error'.
C27_MergeCancelNeverError ==
  [][CancelDuringMerge => Tag(cl) \notin cl'.errors]_vars

\* a file of the current selection ended in 'error' and nothing was cancelled
ErrorInBatch ==
  /\ \E t \in cl.errors : t[1] = cl.batches
  /\ ~CancelledThisBatch

\* C28: when a file of a selection ended in 'error', the status after the loop
\* over the selection is 'error'.
C28_ErrorIsTerminal ==
  (cl.pc = "idle" /\ cl.batches > 0 /\ cl.status # "waiting" /\ ErrorInBatch) =>
    cl.status = "error"

\* the payloads of the listed chunks of content version v, in the listed order
RECURSIVE Concatenated(_, _)
Concatenated(v, chunks) ==
  IF chunks = <<>> THEN <<>>
  ELSE Payload(v, parseInt(Head(chunks))) \o Concatenated(v, Tail(chunks))

\* merge m has answered success and nothing else
Succeeded(m) ==
  merge[m].pc = "done" /\ merge[m].resp = <<MergedResponse(merge[m].filename)>>

\* the file under the name of merge m holds every chunk the merge listed
WrittenCompletely(m) ==
  /\ uploadsDir[merge[m].filename].ex
  /\ uploadsDir[merge[m].filename].data =
       Concatenated(FileOf(merge[m].hash).content, merge[m].chunks)

C29_ArtifactInPlace ==
  \A m \in MergeIds :
    Succeeded(m) => (WrittenCompletely(m) /\ merge[m].hash \notin chunkDirs)

C29_LaterCheckSeesIt ==
  \A m \in MergeIds, k \in CheckIds :
    (/\ Succeeded(m)
     /\ check[k].pc = "access"
     /\ check'[k].pc # "access"
     /\ ~check[k].isAborted
     /\ check[k].filename = merge[m].filename) =>
       check'[k].resp = <<CheckResp(200, TRUE, FALSE, <<>>)>>

C29_WrittenBeforeDeleted ==
  \A m \in MergeIds :
    (merge[m].pc = "remove" /\ merge'[m].pc = "done") => WrittenCompletely(m)

C30_SuccessHoldsSnapshot ==
  \A m \in MergeIds : Succeeded(m) => WrittenCompletely(m)

\* no upload and no cleanup has disturbed the chunk of completed upload u
Undisturbed(u) ==
  /\ \A w \in UploadIds \ {u} :
       OnPath(upload[w], upload[u].hash, upload[u].index) => ~upload[w].isAborted
  /\ \A c \in CleanupIds : ~OnPath(cleanup[c], upload[u].hash, upload[u].index)

C31_NoneFails ==
  \A u \in UploadIds :
    Completed(u) => upload[u].resp = <<UploadedResponse(upload[u].hash, upload[u].index)>>

C31_OneStagingArea ==
  /\ chunkDirs \subseteq {HashA}
  /\ (\E u \in UploadIds : Completed(u) \/ upload[u].pc = "writing") => chunkDirs = {HashA}

C31_HoldsCompletedChunks ==
  \A u \in UploadIds :
    (Completed(u) /\ Undisturbed(u)) => ChunkExists(upload[u].hash, upload[u].index)

\* C31: chunk uploads for a fingerprint the server has not seen, arriving in
\* any interleaving, never fail on the creation of the staging directory;
\* one staging area exists afterwards and holds every chunk whose upload
\* completed.
C31_StagingAreaCreationIsRaceSafe ==
  C31_NoneFails /\ C31_OneStagingArea /\ C31_HoldsCompletedChunks

C31_Witness ==
  /\ Completed("u1") /\ Completed("u2")
  /\ upload["u1"].after = {} /\ upload["u2"].after = {}
  /\ upload["u1"].index # upload["u2"].index
  /\ chunkDirs = {HashA}
  /\ Len(chunkList[HashA]) = 2

\* merge m was aborted before it had finished assembling
AbortedAssembling(r) ==
  r.isAborted /\ r.abortedAt \in {"readdir", "read", "write", "yield", "waitFinish"}

\* no step of such a merge, its abort included, touches the staging areas
C32_ChunkSetIntact ==
  \A m \in MergeIds :
    (merge'[m] # merge[m] /\ AbortedAssembling(merge'[m])) =>
      (chunkDirs' = chunkDirs /\ chunkList' = chunkList /\ chunkData' = chunkData)

\* the same merge, asked again after an abort that came during the streaming,
\* succeeds
C32_RetrySucceeds ==
  (/\ AbortedAssembling(merge["m1"])
   /\ merge["m1"].ws # "none"
   /\ ~merge["m1"].ioFailed
   /\ merge["m2"].pc = "done") =>
     (Succeeded("m2") /\ WrittenCompletely("m2") /\ merge["m2"].chunks = merge["m1"].chunks)

\* C32: a merge aborted before it has finished assembling leaves the Chunk
\* Set as it was, and the same merge requested again, with nothing uploaded
\* in between, succeeds.
C32_AbortedMergeKeepsChunkSet ==
  [][C32_ChunkSetIntact]_vars /\ []C32_RetrySucceeds

C32_Witness ==
  /\ merge["m1"].isAborted
  /\ merge["m1"].abortedAt \in {"read", "write"}
  /\ merge["m1"].pos > 0
  /\ merge["m1"].pc = "done"
  /\ merge["m2"].total = 2
  /\ Succeeded("m2")
  /\ WrittenCompletely("m2")

\* C33: an artifact that a merge has assembled is still there, with the same
\* content, after a later merge request that names it has ended without
\* success.
C33_ArtifactSurvivesFailedMerge ==
  (/\ Succeeded("m1")
   /\ merge["m2"].pc = "done"
   /\ merge["m2"].filename = merge["m1"].filename
   /\ ~Succeeded("m2")) =>
     WrittenCompletely("m1")

\* a selection made once every cancellation raised before has run to its end
C34_StartsAfresh ==
  (cl'.batches = cl.batches + 1 /\ cl.cpc = "idle" /\ cl.cancels # {}) =>
    /\ ~cl'.isCancelledRef
    /\ ~cl'.svcCancelled
    /\ sent' # <<>>
    /\ sent'[1].kind = "check"

\* file i of the selection at hand went the fast path, or its merge was sent
\* and neither a cancellation nor an error came for it
FileSucceeded(c, i) ==
  \/ <<c.batches, i>> \in c.fast
  \/ /\ \E j \in 1..Len(sent') : sent'[j].kind = "merge" /\ sent'[j].tag = <<c.batches, i>>
     /\ <<c.batches, i>> \notin c.errors
     /\ \A t \in c.cancels : <<t[1], t[2]>> # <<c.batches, i>>

C34_SuccessMeansAllSucceeded ==
  (/\ cl'.pc = "idle"
   /\ cl'.status = "success"
   /\ cl.pc # "idle" \/ cl'.batches # cl.batches) =>
     \A i \in 1..(IF Len(cl.files) = 0 THEN 1 ELSE Len(cl.files)) : FileSucceeded(cl', i)

\* C34: a selection made after a cancellation has completed starts with the
\* cancellation flags reset and a status check sent, and a selection is
\* reported 'success' only if each of its files reached success or
\* fast-success.
C34_CancellationEndsWithBatch ==
  [][C34_StartsAfresh /\ C34_SuccessMeansAllSucceeded]_vars

\* C35: no request of any of the four routes is answered more than once; in
\* particular nothing is sent after the 499 of the abort handler.
C35_AnsweredAtMostOnce ==
  /\ \A m \in MergeIds : Len(merge[m].resp) <= 1
  /\ \A k \in CheckIds : Len(check[k].resp) <= 1
  /\ \A u \in UploadIds : Len(upload[u].resp) <= 1
  /\ \A c \in CleanupIds : Len(cleanup[c].resp) <= 1

\* C36: as long as no cancellation is raised and no request is dropped, no
\* file of any size, the empty file included, ends in the error state, and a
\* selection reported 'success' has an artifact under the name of each of its
\* files.
C36_TransferEndsWithArtifact ==
  (cl.cancels = {} /\ cl.aborted = {}) =>
    /\ cl.errors = {}
    /\ cl.status # "error"
    /\ (cl.pc = "idle" /\ cl.status = "success") =>
         \A j \in 1..Len(sent) : sent[j].kind = "check" => uploadsDir[sent[j].name].ex

\* currentUploadRef is set exactly while the orchestrator awaits a chunk upload
C37_RecordedWhileOutstanding == cl.cur.set <=> cl.pc = "upload"

\* and it names the request sent last, which the upload handler is serving
C37_RecordIsTheRequest ==
  cl.cur.set =>
    /\ sent # <<>>
    /\ sent[Len(sent)].kind = "upload"
    /\ sent[Len(sent)].hash = cl.cur.hash
    /\ sent[Len(sent)].index = toString(cl.cur.index)
    /\ upload["u1"].hash = cl.cur.hash
    /\ upload["u1"].index = toString(cl.cur.index)

\* a chunk upload is dispatched only when the one before it has been answered
\* and its handler has returned
C37_OneAtATime ==
  /\ Cardinality({r \in NewlySent : r.kind = "upload"}) <= 1
  /\ \A r \in NewlySent : r.kind = "upload" =>
       /\ upload["u1"].pc \in {"idle", "done"}
       /\ cl.pc = "upload" => upload["u1"].resp # <<>>

\* the cleanup of a cancellation names the chunk whose upload it has aborted
C37_CleanupTargetsInFlight ==
  \A r \in NewlySent : r.kind = "cleanup" =>
    /\ cl.pc = "upload"
    /\ cl.cur.set
    /\ r.hash = upload["u1"].hash
    /\ r.index = upload["u1"].index
    /\ "u1" \in cl'.aborted

FlagSet(c) == c.isCancelledRef \/ c.svcCancelled

\* C38: no chunk upload is dispatched in a step that starts with a
\* cancellation flag set, nor in the step that sets one, whichever request
\* the orchestrator was awaiting when the cancel came.
C38_NoUploadAfterCancel ==
  [][\A r \in NewlySent : r.kind = "upload" => (~FlagSet(cl) /\ ~FlagSet(cl'))]_vars

C38_Witness ==
  /\ cl.status = "cancelled"
  /\ FlagSet(cl)
  /\ Len(sent) = 3
  /\ sent[1].kind = "check" /\ sent[1].hash = HashA
  /\ sent[2].kind = "upload" /\ sent[2].index = <<"0">>
  /\ sent[3].kind = "cleanup" /\ sent[3].index = <<"0">>
  /\ Len(createFileChunks(FileA, ChunkSize)) = 2

\* C39: two files that differ in name or in modification time have different
\* fingerprints.
C39_DistinctFilesDistinctFingerprints ==
  (/\ util.op = "hashed"
   /\ \/ util.file.name # util.other.name
      \/ util.file.lastModified # util.other.lastModified) =>
     util.hash # util.otherHash


====
